---- MODULE Spec2Model ----
(***************************************************************************)
(* ADGM Corporate Agent: the generation client (models/gemini_client.py),  *)
(* the retrieval-augmented analyzer (components/rag_engine.py) and the     *)
(* rule-based compliance checker (components/compliance_checker.py).       *)
(*                                                                         *)
(* The program is single threaded.  Each component is a state machine of   *)
(* its own specification: SpecGen (generate_response and                   *)
(* analyze_legal_document), SpecRAG (analyze_document and                  *)
(* search_knowledge_base, with the generation client they call) and        *)
(* SpecChecker (check_document).                                           *)
(*                                                                         *)
(* Texts are sequences of one-character strings.  Similarity scores are    *)
(* integers in hundredths (0.7 is 70).                                     *)
(***************************************************************************)
EXTENDS Integers, Sequences, FiniteSets, TLC

VARIABLES
    \* ---- GeminiClient.generate_response ----
    gen_pc,        \* "idle", "attempt", "sleep", "returned", "raised"
    gen_caller,    \* who called generate_response
    attempt,       \* the loop variable of `for attempt in range(max_retries)`
    outcomes,      \* history: the outcome of every model.generate_content call
    sleeps,        \* history: the argument of every time.sleep call
    gen_result,    \* [none, text]: what generate_response returned
    \* ---- GeminiClient.analyze_legal_document ----
    legal_pc,      \* "idle", "generating", "done"
    legal_result,  \* the returned dict, or an escaped exception
    \* ---- RAGEngine.analyze_document / search_knowledge_base ----
    rag_pc,        \* "idle", "generating", "done", "searched"
    rag_in,        \* [document, process_type]
    queries,       \* history: every request sent to index.query
    matches,       \* the matches the index returned to the last query
    prompt,        \* the prompt handed to generate_response
    rag_result,    \* what analyze_document returned, or an escaped exception
    search_result, \* what search_knowledge_base returned
    \* ---- ComplianceChecker.check_document ----
    chk_pc,        \* "idle", "done"
    chk_in,        \* [doc, process_type]
    chk_result,    \* the returned dict
    \* ---- ADGMCorporateAgent.process_documents ----
    app_pc,         \* "idle", "save", "parse", "analyze", "check", "comment",
                    \* "except", "finally", "returned", "raised"
    uploaded_files, \* the number of files of the batch (file i is the i-th)
    options,        \* [check_compliance, detect_red_flags, add_comments]
    app_i,          \* the 1-based position of the file being processed
    tmp_files,      \* the files whose temporary file exists on disk
    app_doc_data,       \* the dict of the file being processed
    app_results,        \* the dict process_documents builds and returns
    errors,         \* history: the files st.error reported
    events,         \* history: the steps taken, [step, i]
    \* ---- RAGEngine: construction, ingestion, refresh ----
    kb_pc,          \* "idle", "setup", "connect", "check", "delete", "settle",
                    \* "download", "populate", "summary", "upsert", "ready", "raised"
    kb_op,          \* "none", "__init__", "force_refresh_knowledge_base"
    has_pc,         \* whether the engine object has the attribute `pc`
    index_exists,   \* whether index_name is among the indexes of the account
    index_records,  \* the ids of the records the index holds
    index_before,   \* index_records when the running operation began
    docs_dir,       \* manifest file -> "absent", "unreadable", "readable"
    kb_i,           \* the loop position inside download, populate and upsert
    vectors,        \* the records staged by _populate_from_official_documents
                    \* in the running operation
    kb_events,      \* history: the calls made, [call, arg, ok]
    \* ---- RAGEngine._chunk_content ----
    chunk_n,        \* the number of words of the content handed in
    chunks_out,     \* the returned list; a chunk is the word range [first, last]
    \* ---- main ----
    main_pc,        \* "idle", "constructing", "run", "error"
    env,            \* which credentials the secrets or the environment hold
    \* ---- RAGEngine.analyze_document, called on two documents ----
    pair_pc,        \* "idle", "done"
    pair_in,        \* [first, second, process_type]
    pair_matches,   \* the matches the index returned to each call
    pair_prompts    \* the prompt each call handed to generate_response

gen_vars   == <<gen_pc, gen_caller, attempt, outcomes, sleeps, gen_result>>
legal_vars == <<legal_pc, legal_result>>
rag_vars   == <<rag_pc, rag_in, queries, matches, prompt, rag_result, search_result>>
chk_vars   == <<chk_pc, chk_in, chk_result>>
app_vars   == <<app_pc, uploaded_files, options, app_i, tmp_files, app_doc_data, app_results,
                errors, events>>
kb_vars    == <<kb_pc, kb_op, has_pc, index_exists, index_records, index_before, docs_dir,
                kb_i, vectors, kb_events>>
chunk_vars == <<chunk_n, chunks_out>>
main_vars  == <<main_pc, env>>
pair_vars  == <<pair_pc, pair_in, pair_matches, pair_prompts>>
vars       == <<gen_vars, legal_vars, rag_vars, chk_vars, app_vars, kb_vars, chunk_vars,
                main_vars, pair_vars>>

\* ------------------------------------------------------------------------
\* Bounds of the model

\* the longest text the generation model answers with
MaxRespLen == 6

\* the longest document text handed to analyze_document
MaxDocChars == 1

\* the most heading paragraphs of a checked document
MaxHeadings == 1

\* the most uploaded files of a batch
MaxBatch == 2

\* the longest content handed to _chunk_content, in words
MaxWords == 2600

\* ------------------------------------------------------------------------
\* Python helpers

\* str.find(c): the 0-based index of the first c, or -1
PyFind(s, c) ==
    IF \E i \in 1..Len(s) : s[i] = c
    THEN (CHOOSE i \in 1..Len(s) : s[i] = c /\ \A j \in 1..(i - 1) : s[j] # c) - 1
    ELSE -1

\* str.rfind(c): the 0-based index of the last c, or -1
PyRFind(s, c) ==
    IF \E i \in 1..Len(s) : s[i] = c
    THEN (CHOOSE i \in 1..Len(s) : s[i] = c /\ \A j \in (i + 1)..Len(s) : s[j] # c) - 1
    ELSE -1

\* s[a:b] for 0 <= a and 0 <= b: empty when a >= b
PySlice(s, a, b) ==
    LET hi == IF b > Len(s) THEN Len(s) ELSE b
    IN  IF a >= hi THEN <<>> ELSE SubSeq(s, a + 1, hi)

\* 2 ** n
Pow2(n) == IF n = 0 THEN 1 ELSE IF n = 1 THEN 2 ELSE IF n = 2 THEN 4 ELSE 8

\* ------------------------------------------------------------------------
\* GeminiClient.generate_response

\* max_retries: int = 3
max_retries == 3

\* The characters of a model answer: braces, "k" for a `"key":` member
\* prefix, "t" for any character of prose.
RespChars == {"{", "}", "k", "t"}

RespTexts == UNION {[1..n -> RespChars] : n \in 0..MaxRespLen}

\* The narrative answers analyze_document gets: their content is not read.
PlainTexts == {<<>>, <<"t">>}

NoText == <<>>

\* One call of self.model.generate_content(prompt) followed by the read of
\* response.text: it raises, or yields a text (possibly empty).
ModelOutcomes(caller) ==
    {[raised |-> TRUE, text |-> NoText]}
    \cup {[raised |-> FALSE, text |-> t] :
            t \in IF caller = "analyze_legal_document" THEN RespTexts ELSE PlainTexts}

\* `if response.text:` is true of a non-empty string
Truthy(text) == text # <<>>

\* `if attempt < max_retries - 1` in the except clause (off by one: mutant)
MayRetryOneMore(a) == a < max_retries
MayRetry(a) == a < max_retries - 1

\* time.sleep(2 ** attempt) (linear instead of exponential: mutant)
BackoffLinear(a) == 2 * a
Backoff(a) == Pow2(a)

GenIdle ==
    /\ gen_pc = "idle"
    /\ legal_pc = "idle"
    /\ rag_pc = "idle"

\* Entering generate_response: the first iteration of the loop
generate_response_enter(caller) ==
    /\ gen_pc' = "attempt"
    /\ gen_caller' = caller
    /\ attempt' = 0
    /\ outcomes' = <<>>
    /\ sleeps' = <<>>
    /\ gen_result' = [none |-> TRUE, text |-> NoText]

\* A direct call of generate_response (generate_document_suggestions,
\* explain_adgm_requirement and compare_with_template return its result)
generate_response ==
    /\ GenIdle
    /\ generate_response_enter("generate_response")
    /\ UNCHANGED <<legal_vars, rag_vars, chk_vars, app_vars, kb_vars, chunk_vars, main_vars, pair_vars>>

\* The body of the try block of one iteration and its except clause
generate_content ==
    /\ gen_pc = "attempt"
    /\ \E out \in ModelOutcomes(gen_caller) :
        /\ outcomes' = Append(outcomes, out)
        /\ IF ~out.raised /\ Truthy(out.text)
           THEN /\ gen_pc' = "returned"
                /\ gen_result' = [none |-> FALSE, text |-> out.text]
           ELSE /\ gen_pc' = IF MayRetry(attempt) THEN "sleep" ELSE "raised"
                /\ UNCHANGED gen_result
    /\ UNCHANGED <<gen_caller, attempt, sleeps>>
    /\ UNCHANGED <<legal_vars, rag_vars, chk_vars, app_vars, kb_vars, chunk_vars, main_vars, pair_vars>>

\* time.sleep(2 ** attempt); continue.  When the range is exhausted the
\* function falls off its end and returns None.
backoff_sleep ==
    /\ gen_pc = "sleep"
    /\ sleeps' = Append(sleeps, Backoff(attempt))
    /\ attempt' = attempt + 1
    /\ gen_pc' = IF attempt + 1 < max_retries THEN "attempt" ELSE "returned"
    /\ UNCHANGED <<gen_caller, outcomes, gen_result>>
    /\ UNCHANGED <<legal_vars, rag_vars, chk_vars, app_vars, kb_vars, chunk_vars, main_vars, pair_vars>>

\* The frame of generate_response is gone once its caller has the result
generate_response_leave ==
    /\ gen_pc' = "idle"
    /\ gen_caller' = "nobody"
    /\ attempt' = 0
    /\ outcomes' = <<>>
    /\ sleeps' = <<>>
    /\ gen_result' = [none |-> TRUE, text |-> NoText]

\* The direct caller takes the result (or the exception)
generate_response_exit ==
    /\ gen_pc \in {"returned", "raised"}
    /\ gen_caller = "generate_response"
    /\ generate_response_leave
    /\ UNCHANGED <<legal_vars, rag_vars, chk_vars, app_vars, kb_vars, chunk_vars, main_vars, pair_vars>>

\* ------------------------------------------------------------------------
\* GeminiClient.analyze_legal_document

\* json.loads on a text of RespChars.  The grammar is JSON's, restricted to
\* objects of at most one member:  object ::= "{" "}" | "{" "k" object "}".
\* The parsed dict is represented by its nesting depth.
RECURSIVE ParseObject(_, _)
ParseObject(s, i) ==
    LET fail == [ok |-> FALSE, next |-> 0, depth |-> 0]
    IN  IF i + 1 > Len(s) \/ s[i] # "{" THEN fail
        ELSE IF s[i + 1] = "}" THEN [ok |-> TRUE, next |-> i + 2, depth |-> 1]
        ELSE IF s[i + 1] = "k"
             THEN LET r == ParseObject(s, i + 2)
                  IN  IF r.ok /\ r.next <= Len(s) /\ s[r.next] = "}"
                      THEN [ok |-> TRUE, next |-> r.next + 1, depth |-> r.depth + 1]
                      ELSE fail
        ELSE fail

\* json.loads(json_str): the value, or JSONDecodeError (ok = FALSE); text
\* after the value is "Extra data"
json_loads(json_str) ==
    LET r == ParseObject(json_str, 1)
    IN  IF r.ok /\ r.next = Len(json_str) + 1
        THEN [ok |-> TRUE, value |-> r.depth]
        ELSE [ok |-> FALSE, value |-> 0]

\* json_start, json_end and the test `json_start != -1 and json_end != -1`
\* (the span ends at the first closing brace: mutant)
JsonSpanToFirstBrace(response) ==
    LET json_start == PyFind(response, "{")
        json_end   == PyFind(response, "}") + 1
    IN  [found    |-> json_start # -1 /\ json_end # -1,
         json_str |-> IF json_start # -1 THEN PySlice(response, json_start, json_end)
                      ELSE <<>>]
JsonSpan(response) ==
    LET json_start == PyFind(response, "{")
        json_end   == PyRFind(response, "}") + 1
    IN  [found    |-> json_start # -1 /\ json_end # -1,
         json_str |-> IF json_start # -1 THEN PySlice(response, json_start, json_end)
                      ELSE <<>>]

NoAssessment == [present |-> FALSE, overall_compliant |-> FALSE, compliance_score |-> 0]

LegalNone ==
    [kind |-> "none", value |-> 0, has_error |-> FALSE,
     compliance_assessment |-> NoAssessment,
     has_full_response |-> FALSE, full_response |-> NoText]

\* return json.loads(json_str): the parsed dict itself
ParsedResult(value) ==
    [LegalNone EXCEPT !.kind = "parsed", !.value = value]

\* The dict returned when no JSON is found
NoJsonResult(response) ==
    [LegalNone EXCEPT !.kind = "degraded",
        !.compliance_assessment =
            [present |-> TRUE, overall_compliant |-> FALSE, compliance_score |-> 50],
        !.has_full_response = TRUE, !.full_response = response]

\* The dict returned by `except json.JSONDecodeError`
DecodeErrorResult(response) ==
    [LegalNone EXCEPT !.kind = "degraded",
        !.compliance_assessment =
            [present |-> TRUE, overall_compliant |-> FALSE, compliance_score |-> 50],
        !.has_full_response = TRUE, !.full_response = response]

\* The dict returned by the outer `except Exception`
AnalysisFailedResult ==
    [LegalNone EXCEPT !.kind = "error", !.has_error = TRUE,
        !.compliance_assessment =
            [present |-> TRUE, overall_compliant |-> FALSE, compliance_score |-> 0]]

\* An exception that leaves the method
EscapedResult == [LegalNone EXCEPT !.kind = "raised"]

\* `except json.JSONDecodeError` of the inner try block
InnerCatches(exc) == exc = "JSONDecodeError"

\* `except Exception as e` of the outer try block (a narrower clause: mutant)
OuterCatchesValueError(exc) == exc \in {"ValueError", "JSONDecodeError"}
OuterCatches(exc) == exc \in {"Exception", "AttributeError", "ValueError", "JSONDecodeError"}

\* What the handlers make of an exception raised inside the inner try block
\* (inner = TRUE) or by generate_response
Handle(exc, inner, response) ==
    IF inner /\ InnerCatches(exc) THEN DecodeErrorResult(response)
    ELSE IF OuterCatches(exc) THEN AnalysisFailedResult
    ELSE EscapedResult

\* The inner try block on the text generate_response returned
ParseResponse(response) ==
    LET span == JsonSpan(response)
    IN  IF span.found
        THEN LET parsed == json_loads(span.json_str)
             IN  IF parsed.ok THEN ParsedResult(parsed.value)
                 ELSE Handle("JSONDecodeError", TRUE, response)
        ELSE NoJsonResult(response)

\* The outer try block: generate_response raised Exception, or returned None
\* (response.find then raises AttributeError), or the inner block ran
analyze_legal_document_result ==
    IF gen_pc = "raised" THEN Handle("Exception", FALSE, NoText)
    ELSE IF gen_result.none THEN Handle("AttributeError", TRUE, NoText)
    ELSE ParseResponse(gen_result.text)

\* analyze_legal_document builds the prompt and calls generate_response
analyze_legal_document ==
    /\ GenIdle
    /\ legal_pc' = "generating"
    /\ generate_response_enter("analyze_legal_document")
    /\ UNCHANGED <<legal_result, rag_vars, chk_vars, app_vars, kb_vars, chunk_vars, main_vars, pair_vars>>

\* generate_response has returned or raised: the method returns its dict
analyze_legal_document_return ==
    /\ legal_pc = "generating"
    /\ gen_pc \in {"returned", "raised"}
    /\ legal_pc' = "done"
    /\ legal_result' = analyze_legal_document_result
    /\ UNCHANGED <<gen_vars, rag_vars, chk_vars, app_vars, kb_vars, chunk_vars, main_vars, pair_vars>>

\* The caller has the dict
analyze_legal_document_exit ==
    /\ legal_pc = "done"
    /\ legal_pc' = "idle"
    /\ legal_result' = LegalNone
    /\ generate_response_leave
    /\ UNCHANGED <<rag_vars, chk_vars, app_vars, kb_vars, chunk_vars, main_vars, pair_vars>>

\* ------------------------------------------------------------------------
\* RAGEngine.analyze_document and RAGEngine.search_knowledge_base

\* top_k=5 of the query of analyze_document, and the default of
\* search_knowledge_base
top_k_default == 5

\* `match['score'] > 0.7`, in hundredths
analysis_threshold == 70

\* `match['score'] > 0.6`, in hundredths
search_threshold == 60

\* context_chunks[:3]
context_limit == 3

\* document_content[:2000]
prompt_document_chars == 2000

\* Similarity scores, in hundredths: at and on both sides of each threshold
Scores == {60, 70, 71, 90}

\* The content of the chunk at each rank of a query result
ChunkIds == <<"c1", "c2", "c3", "c4", "c5">>

\* '\n\n', the separator of the context block
Separator == "\n\n"

ProcessTypes ==
    {"Company Incorporation", "Business Licensing", "Constitutional Amendments",
     "General Document Review"}

\* Document texts: up to MaxDocChars characters
DocTexts == UNION {[1..n -> {"a"}] : n \in 0..MaxDocChars}

\* The request analyze_document sends to index.query
AnalyzeQuery == [top_k |-> top_k_default, include_metadata |-> TRUE, filter_official |-> TRUE]

\* The request search_knowledge_base sends to index.query
SearchQuery(top_k) == [top_k |-> top_k, include_metadata |-> TRUE, filter_official |-> TRUE]

\* The vector index (Pinecone): the answers index.query can give to a
\* request.  At most top_k matches, nearest first (scores never increase
\* along the list), every one official when the request filters on
\* is_official.  The chunk at rank i is ChunkIds[i].
RECURSIVE RankedLists(_, _)
RankedLists(n, official) ==
    IF n = 0 THEN {<<>>}
    ELSE {Append(ms, [id |-> ChunkIds[n], score |-> sc, is_official |-> o]) :
            ms \in RankedLists(n - 1, official),
            sc \in Scores, o \in official}

Descending(ms) == \A i \in 1..(Len(ms) - 1) : ms[i].score >= ms[i + 1].score

IndexQuery(req) ==
    LET official == IF req.filter_official THEN {TRUE} ELSE BOOLEAN
    IN  UNION {{ms \in RankedLists(n, official) : Descending(ms)} : n \in 0..req.top_k}

\* `if match['score'] > 0.7` (a match at the threshold passes: mutant)
InContextFromThreshold(match) == match.score >= analysis_threshold
InContext(match) == match.score > analysis_threshold

\* f"[{metadata['source']} - {metadata['document_type']}]: {metadata['content']}"
FormatChunk(match) == <<match.id>>

\* The list context_chunks built by the loop over the matches
RECURSIVE ContextChunks(_)
ContextChunks(ms) ==
    IF ms = <<>> THEN <<>>
    ELSE (IF InContext(Head(ms)) THEN <<FormatChunk(Head(ms))>> ELSE <<>>)
         \o ContextChunks(Tail(ms))

\* context_chunks[:3] (the slice is forgotten: mutant)
FirstChunksAll(chunks) == chunks
FirstChunks(chunks) == PySlice(chunks, 0, context_limit)

\* sep.join(parts)
RECURSIVE Join(_, _)
Join(sep, parts) ==
    IF parts = <<>> THEN <<>>
    ELSE IF Len(parts) = 1 THEN Head(parts)
    ELSE Head(parts) \o <<sep>> \o Join(sep, Tail(parts))

\* context = '\n\n'.join(context_chunks[:3])
Context(ms) == Join(Separator, FirstChunks(ContextChunks(ms)))

\* The f-string analysis_prompt: its three interpolated parts
AnalysisPrompt(document_content, process_type, context) ==
    [process_type |-> process_type,
     context      |-> context,
     document     |-> PySlice(document_content, 0, prompt_document_chars)]

NoRagIn == [document |-> <<>>, process_type |-> ""]

NoPrompt == [process_type |-> "", context |-> <<>>, document |-> <<>>]

RagNone == [kind |-> "none", exc |-> "", text |-> NoText]

\* `except Exception as e` of analyze_document (only index errors: mutant)
AnalyzeCatchesIndexErrors(exc) == exc = "PineconeException"
AnalyzeCatches(exc) == exc \in {"Exception", "PineconeException", "RuntimeError"}

\* return f"Error in official ADGM analysis: {str(e)}", or the exception
\* leaves the method
AnalyzeFailure(exc) ==
    IF AnalyzeCatches(exc)
    THEN [kind |-> "error", exc |-> exc, text |-> NoText]
    ELSE [kind |-> "raised", exc |-> exc, text |-> NoText]

\* analyze_document up to its call of generate_response: the embedding
\* (which may raise RuntimeError), the query (which may raise
\* PineconeException), the context and the prompt
analyze_document ==
    /\ GenIdle
    /\ \E document_content \in DocTexts, process_type \in ProcessTypes, encoded \in BOOLEAN :
        /\ rag_in' = [document |-> document_content, process_type |-> process_type]
        /\ search_result' = <<>>
        /\ IF ~encoded
           THEN /\ queries' = <<>>
                /\ matches' = <<>>
                /\ prompt' = NoPrompt
                /\ rag_result' = AnalyzeFailure("RuntimeError")
                /\ rag_pc' = "done"
                /\ UNCHANGED gen_vars
           ELSE /\ queries' = <<AnalyzeQuery>>
                /\ \/ /\ matches' = <<>>
                      /\ prompt' = NoPrompt
                      /\ rag_result' = AnalyzeFailure("PineconeException")
                      /\ rag_pc' = "done"
                      /\ UNCHANGED gen_vars
                   \/ \E search_results \in IndexQuery(AnalyzeQuery) :
                      /\ matches' = search_results
                      /\ prompt' = AnalysisPrompt(document_content, process_type,
                                                  Context(search_results))
                      /\ rag_result' = RagNone
                      /\ rag_pc' = "generating"
                      /\ generate_response_enter("analyze_document")
    /\ UNCHANGED <<legal_vars, chk_vars, app_vars, kb_vars, chunk_vars, main_vars, pair_vars>>

\* A text of prompt_document_chars characters
LongText == [i \in 1 .. prompt_document_chars |-> "a"]

\* Documents for two calls: short ones, and long ones that share their
\* first prompt_document_chars characters
PairDocs == {<<>>, <<"a">>} \cup {LongText \o tail : tail \in {<<>>, <<"a">>, <<"b">>}}

\* The vectors embedding_model.encode can return
Embeddings == {"u", "v"}

\* The answers of the index to these calls: at most one match
PairAnswers == {ms \in IndexQuery(AnalyzeQuery) : Len(ms) <= 1}

\* analyze_document called on two documents with the same process_type
\* against the same index, as far as line 360 of each call.  The query
\* vector is encode(document_content), of the whole text (line 319): the
\* same text gives the same vector, and the same vector gives the same
\* matches.
analyze_document_pair ==
    /\ pair_pc = "idle"
    /\ \E first \in PairDocs, second \in PairDocs, process_type \in ProcessTypes :
       \E e1 \in Embeddings, e2 \in Embeddings, m1 \in PairAnswers, m2 \in PairAnswers :
        /\ first = second => e1 = e2
        /\ e1 = e2 => m1 = m2
        /\ pair_in' = [first |-> first, second |-> second, process_type |-> process_type]
        /\ pair_matches' = <<m1, m2>>
        /\ pair_prompts' = <<AnalysisPrompt(first, process_type, Context(m1)),
                             AnalysisPrompt(second, process_type, Context(m2))>>
    /\ pair_pc' = "done"
    /\ UNCHANGED <<gen_vars, legal_vars, rag_vars, chk_vars, app_vars, kb_vars, chunk_vars, main_vars>>

\* generate_response has returned or raised: analyze_document returns
analyze_document_return ==
    /\ rag_pc = "generating"
    /\ gen_pc \in {"returned", "raised"}
    /\ rag_pc' = "done"
    /\ rag_result' = IF gen_pc = "raised" THEN AnalyzeFailure("Exception")
                     ELSE IF gen_result.none THEN [kind |-> "None", exc |-> "", text |-> NoText]
                     ELSE [kind |-> "text", exc |-> "", text |-> gen_result.text]
    /\ UNCHANGED <<gen_vars, rag_in, queries, matches, prompt, search_result>>
    /\ UNCHANGED <<legal_vars, chk_vars, app_vars, kb_vars, chunk_vars, main_vars, pair_vars>>

\* `if match['score'] > 0.6` (a match at the threshold passes: mutant)
InSearchResultFromThreshold(match) == match.score >= search_threshold
InSearchResult(match) == match.score > search_threshold

\* The dict built for one match
SearchRecord(match) == [content |-> match.id, document_id |-> match.id, score |-> match.score]

\* The list comprehension over results.get('matches', [])
RECURSIVE SearchRecords(_)
SearchRecords(ms) ==
    IF ms = <<>> THEN <<>>
    ELSE (IF InSearchResult(Head(ms)) THEN <<SearchRecord(Head(ms))>> ELSE <<>>)
         \o SearchRecords(Tail(ms))

\* The values of top_k a caller passes
SearchTopKs == {1, 3, top_k_default}

\* search_knowledge_base: the embedding, the query and the comprehension;
\* any exception is printed and [] is returned
search_knowledge_base ==
    /\ GenIdle
    /\ \E top_k \in SearchTopKs, encoded \in BOOLEAN :
        /\ IF ~encoded
           THEN /\ queries' = <<>>
                /\ matches' = <<>>
                /\ search_result' = <<>>
           ELSE /\ queries' = <<SearchQuery(top_k)>>
                /\ \/ /\ matches' = <<>>
                      /\ search_result' = <<>>
                   \/ \E results \in IndexQuery(SearchQuery(top_k)) :
                      /\ matches' = results
                      /\ search_result' = SearchRecords(results)
    /\ rag_pc' = "searched"
    /\ UNCHANGED <<rag_in, prompt, rag_result>>
    /\ UNCHANGED <<gen_vars, legal_vars, chk_vars, app_vars, kb_vars, chunk_vars, main_vars, pair_vars>>

\* The caller of analyze_document or search_knowledge_base has the result
rag_exit ==
    /\ rag_pc \in {"done", "searched"}
    /\ rag_pc' = "idle"
    /\ rag_in' = NoRagIn
    /\ queries' = <<>>
    /\ matches' = <<>>
    /\ prompt' = NoPrompt
    /\ rag_result' = RagNone
    /\ search_result' = <<>>
    /\ generate_response_leave
    /\ UNCHANGED <<legal_vars, chk_vars, app_vars, kb_vars, chunk_vars, main_vars, pair_vars>>

\* ------------------------------------------------------------------------
\* Documents handed to the parser and the checker
\*
\* The text of a document is a sequence of phrases; the phrase NL is a
\* paragraph break ('\n' in the extracted content), two phrases that follow
\* each other are separated by a space.

NL == "\n"

\* The phrases documents are built from, in the order of the one-line layout
Phrases ==
    <<"UAE Federal Court", "UAE Commercial Code", "ADGM", "TBD", "shall be deemed",
      "witness", "signature", "date", "1 January 2024",
      "registered office, share capital, objects clause, liability clause, directors powers",
      "board resolution">>

PhraseSet == {Phrases[i] : i \in 1..Len(Phrases)}

\* `needle in content.lower()`: the lower-case needles the parser and the
\* checker look for that occur in each phrase
Needles(phrase) ==
    CASE phrase = "witness" -> {"witness"}
      [] phrase = "signature" -> {"signature"}
      [] phrase = "date" -> {"date"}
      [] phrase = "registered office, share capital, objects clause, liability clause, directors powers"
            -> {"registered office", "share capital", "objects clause", "liability clause",
                "directors powers", "register", "directors"}
      [] phrase = "board resolution" -> {"board resolution", "board", "resolution"}
      [] OTHER -> {}

\* `req in content`: the case-sensitive jurisdiction keywords in each phrase
ExactNeedles(phrase) ==
    CASE phrase = "ADGM" -> {"ADGM"}
      [] phrase = "Abu Dhabi Global Market" -> {"Abu Dhabi Global Market"}
      [] OTHER -> {}

Occurs(needle, content) == \E i \in 1..Len(content) : needle \in Needles(content[i])

OccursExact(needle, content) == \E i \in 1..Len(content) : needle \in ExactNeedles(content[i])

\* The 1-based number of the line (paragraph) of position i
LineOf(content, i) == 1 + Cardinality({k \in 1..(i - 1) : content[k] = NL})

SameLine(content, i, j) == \A k \in i..j : content[k] # NL

\* (a lookahead that runs over line breaks, as under re.DOTALL: mutant)
AdgmFollowsAnyLine(content, i) ==
    \E j \in (i + 1)..Len(content) : content[j] = "ADGM"

\* The lookahead (?!.*ADGM) fails at position i: "ADGM" follows on the line
\* ("." does not match a line break)
AdgmFollows(content, i) ==
    \E j \in (i + 1)..Len(content) : content[j] = "ADGM" /\ SameLine(content, i, j)

\* The layouts of a document: every phrase a paragraph of its own, or all of
\* them in one paragraph, in the order of Phrases or in the reverse order
Layouts == {"paragraphs", "line", "reversed"}

RECURSIVE Chosen(_, _)
Chosen(P, i) ==
    IF i > Len(Phrases) THEN <<>>
    ELSE (IF Phrases[i] \in P THEN <<Phrases[i]>> ELSE <<>>) \o Chosen(P, i + 1)

Reverse(seq) == [i \in 1..Len(seq) |-> seq[Len(seq) + 1 - i]]

\* The uploaded document with the phrases P laid out, and n heading paragraphs
Docx(P, layout, n) ==
    LET sel == Chosen(P, 1)
    IN  [content  |-> IF layout = "paragraphs" THEN Join(NL, [i \in 1..Len(sel) |-> <<sel[i]>>])
                      ELSE IF layout = "reversed" THEN Reverse(sel)
                      ELSE sel,
         headings |-> n]

\* ------------------------------------------------------------------------
\* DocumentParser

\* self.document_types, in the order of the dict
document_types ==
    <<[keywords |-> "articles of association", doc_type |-> "Articles of Association"],
      [keywords |-> "memorandum of association", doc_type |-> "Memorandum of Association"],
      [keywords |-> "board resolution", doc_type |-> "Board Resolution"],
      [keywords |-> "shareholder resolution", doc_type |-> "Shareholder Resolution"],
      [keywords |-> "incorporation application", doc_type |-> "Incorporation Application Form"],
      [keywords |-> "ubo declaration", doc_type |-> "UBO Declaration Form"],
      [keywords |-> "register of members", doc_type |-> "Register of Members and Directors"],
      [keywords |-> "employment contract", doc_type |-> "Employment Contract"],
      [keywords |-> "license application", doc_type |-> "License Application"]>>

\* The chain of `if ... elif` after the loop over self.document_types
AdditionalPatternMatching(content) ==
    IF Occurs("articles", content) /\ Occurs("association", content)
        THEN "Articles of Association"
    ELSE IF Occurs("memorandum", content) /\ Occurs("association", content)
        THEN "Memorandum of Association"
    ELSE IF Occurs("resolution", content) /\ Occurs("board", content)
        THEN "Board Resolution"
    ELSE IF Occurs("shareholders", content) /\ Occurs("resolution", content)
        THEN "Shareholder Resolution"
    ELSE IF Occurs("ultimate beneficial owner", content) \/ Occurs("ubo", content)
        THEN "UBO Declaration Form"
    ELSE IF Occurs("register", content)
            /\ (Occurs("members", content) \/ Occurs("directors", content))
        THEN "Register of Members and Directors"
    ELSE IF Occurs("employment", content) /\ Occurs("contract", content)
        THEN "Employment Contract"
    ELSE IF Occurs("license", content) /\ Occurs("application", content)
        THEN "License Application"
    ELSE "Unknown Document Type"

_identify_document_type(content) ==
    LET hits == {i \in 1..Len(document_types) : Occurs(document_types[i].keywords, content)}
    IN  IF hits # {}
        THEN document_types[CHOOSE i \in hits : \A j \in hits : i <= j].doc_type
        ELSE AdditionalPatternMatching(content)

\* The phrases the date patterns \d{1,2}[/-]\d{1,2}[/-]\d{4} and
\* \d{1,2}\s+\w+\s+\d{4} match
DatePhrases == {"1 January 2024", "01/01/2024"}

_analyze_document_structure(docx) ==
    [headings              |-> docx.headings,
     has_signature_section |-> \E keyword \in {"signature", "signed", "witness", "executed"} :
                                  Occurs(keyword, docx.content),
     has_date_section      |-> \E i \in 1..Len(docx.content) : docx.content[i] \in DatePhrases]

\* The fields of doc_data the checker reads
parse_document(docx) ==
    [document_type |-> _identify_document_type(docx.content),
     content       |-> docx.content,
     structure     |-> _analyze_document_structure(docx)]

\* ------------------------------------------------------------------------
\* ComplianceChecker

KnownProcessTypes ==
    {"Company Incorporation", "Business Licensing", "Constitutional Amendments"}

\* self.process_requirements
process_requirements(process_type) ==
    CASE process_type = "Company Incorporation" ->
            [required_documents |-> {"Articles of Association", "Memorandum of Association",
                                     "Board Resolution", "UBO Declaration Form",
                                     "Register of Members and Directors"},
             mandatory_clauses |-> <<"registered office", "share capital", "objects clause",
                                     "liability clause", "directors powers">>,
             jurisdiction_requirements |-> {"ADGM", "Abu Dhabi Global Market"}]
      [] process_type = "Business Licensing" ->
            [required_documents |-> {"License Application Form", "Business Plan",
                                     "Articles of Association", "Commercial License"},
             mandatory_clauses |-> <<"business activities", "registered office",
                                     "authorized activities">>,
             jurisdiction_requirements |-> {"ADGM"}]
      [] process_type = "Constitutional Amendments" ->
            [required_documents |-> {"Board Resolution", "Shareholder Resolution",
                                     "Amended Articles"},
             mandatory_clauses |-> <<"amendment clause", "special resolution", "effective date">>,
             jurisdiction_requirements |-> {"ADGM"}]

\* self.red_flag_patterns, in the order of the list; `pattern` names the
\* regular expression
red_flag_patterns ==
    <<[pattern |-> "courts", issue |-> "Incorrect jurisdiction - should specify ADGM Courts",
       severity |-> "High", category |-> "jurisdiction"],
      [pattern |-> "commercial code",
       issue |-> "Reference to UAE Commercial Code instead of ADGM regulations",
       severity |-> "High", category |-> "jurisdiction"],
      [pattern |-> "placeholder", issue |-> "Template placeholder not filled",
       severity |-> "Medium", category |-> "completeness"],
      [pattern |-> "ambiguous", issue |-> "Ambiguous legal language",
       severity |-> "Medium", category |-> "clarity"],
      [pattern |-> "witness signature",
       issue |-> "Signature section may not comply with ADGM requirements",
       severity |-> "Low", category |-> "formatting"]>>

\* A match of the pattern starts at position i of the content:
\*   courts             UAE Federal Court|Dubai Court|Abu Dhabi Court(?!.*ADGM)
\*   commercial code    UAE Commercial Code(?!.*ADGM)
\*   placeholder        \[.*\]|\{.*\}|TBD|TO BE DETERMINED
\*   ambiguous          shall be deemed|may be construed|could be interpreted
\*   witness signature  (?i)witness.*signature.*(?!.*ADGM)
\* The last one runs to the end of the line and its lookahead holds there,
\* so it matches once per line, at the first "witness" with a "signature"
\* after it.
MatchesAt(pattern, content, i) ==
    CASE pattern = "courts" ->
            \/ content[i] \in {"UAE Federal Court", "Dubai Court"}
            \/ content[i] = "Abu Dhabi Court" /\ ~AdgmFollows(content, i)
      [] pattern = "commercial code" ->
            content[i] = "UAE Commercial Code" /\ ~AdgmFollows(content, i)
      [] pattern = "placeholder" -> content[i] \in {"TBD", "TO BE DETERMINED"}
      [] pattern = "ambiguous" ->
            content[i] \in {"shall be deemed", "may be construed", "could be interpreted"}
      [] pattern = "witness signature" ->
            /\ content[i] = "witness"
            /\ \E j \in (i + 1)..Len(content) :
                  content[j] = "signature" /\ SameLine(content, i, j)
            /\ ~\E k \in 1..(i - 1) : content[k] = "witness" /\ SameLine(content, k, i)

Issue(location, line, issue, detail, severity, category) ==
    [location |-> location, line |-> line, issue |-> issue, detail |-> detail,
     severity |-> severity, category |-> category]

\* A doc_data dict without the 'document_type' key holds this in the field
MissingKey == "<missing>"

\* doc_data.get('document_type', 'Unknown')
get_document_type(doc_data) ==
    IF doc_data.document_type = MissingKey THEN "Unknown" ELSE doc_data.document_type

\* _check_document_type_requirements
_check_document_type_requirements(doc_data, process_type) ==
    IF process_type \notin KnownProcessTypes THEN <<>>
    ELSE LET doc_type == get_document_type(doc_data)
         IN  IF doc_type \notin process_requirements(process_type).required_documents
                /\ doc_type # "Unknown Document Type"
             THEN <<Issue("Document Type", 0, "Document type may not be required",
                          <<doc_type>>, "Medium", "document_type")>>
             ELSE <<>>

\* The issues of one red flag: one for every match, from position i on
RECURSIVE FlagIssues(_, _, _)
FlagIssues(flag, content, i) ==
    IF i > Len(content) THEN <<>>
    ELSE (IF MatchesAt(flag.pattern, content, i)
          THEN <<Issue("Paragraph", LineOf(content, i), flag.issue, <<content[i]>>,
                       flag.severity, flag.category)>>
          ELSE <<>>)
         \o FlagIssues(flag, content, i + 1)

\* _detect_red_flags: the flags in order, the matches of each in order
RECURSIVE RedFlagsFrom(_, _)
RedFlagsFrom(content, f) ==
    IF f > Len(red_flag_patterns) THEN <<>>
    ELSE FlagIssues(red_flag_patterns[f], content, 1) \o RedFlagsFrom(content, f + 1)

_detect_red_flags(doc_data) == RedFlagsFrom(doc_data.content, 1)

\* _check_mandatory_clauses: one issue for every clause not in the content
RECURSIVE MissingClauses(_, _)
MissingClauses(clauses, content) ==
    IF clauses = <<>> THEN <<>>
    ELSE (IF ~Occurs(Head(clauses), content)
          THEN <<Issue("Document Content", 0, "Missing mandatory clause", <<Head(clauses)>>,
                       "High", "mandatory_clauses")>>
          ELSE <<>>)
         \o MissingClauses(Tail(clauses), content)

_check_mandatory_clauses(doc_data, process_type) ==
    IF process_type \notin KnownProcessTypes THEN <<>>
    ELSE MissingClauses(process_requirements(process_type).mandatory_clauses, doc_data.content)

\* federal_patterns of _check_jurisdiction_compliance: re.search finds
\*   UAE Federal Court
\*   Dubai International Financial Centre(?!.*ADGM)
\*   UAE Commercial Code(?!.*ADGM)
federal_patterns == <<"UAE Federal Court", "Dubai International Financial Centre",
                      "UAE Commercial Code">>

\* re.search(pattern, content, re.IGNORECASE) (re.match, which looks at the
\* start of the content only: mutant)
FederalFoundAtStart(pattern, content) ==
    /\ Len(content) >= 1
    /\ content[1] = pattern
    /\ pattern = "UAE Federal Court" \/ ~AdgmFollows(content, 1)
FederalFound(pattern, content) ==
    \E i \in 1..Len(content) :
        /\ content[i] = pattern
        /\ pattern = "UAE Federal Court" \/ ~AdgmFollows(content, i)

\* (one issue however many patterns are found: mutant)
FederalIssuesOnce(patterns, content) ==
    IF \E k \in 1..Len(patterns) : FederalFound(patterns[k], content)
    THEN <<Issue("Jurisdiction Reference", 0,
                 "Incorrect reference to UAE federal jurisdiction", <<>>,
                 "High", "jurisdiction")>>
    ELSE <<>>

\* The loop over federal_patterns: one issue for every pattern found
RECURSIVE FederalIssues(_, _)
FederalIssues(patterns, content) ==
    IF patterns = <<>> THEN <<>>
    ELSE (IF FederalFound(Head(patterns), content)
          THEN <<Issue("Jurisdiction Reference", 0,
                       "Incorrect reference to UAE federal jurisdiction", <<>>,
                       "High", "jurisdiction")>>
          ELSE <<>>)
         \o FederalIssues(Tail(patterns), content)

\* (no gate on the process type, "ADGM" required by default: mutant)
CheckJurisdictionUngated(doc_data, process_type) ==
    (IF ~OccursExact("ADGM", doc_data.content)
     THEN <<Issue("Jurisdiction Clause", 0, "ADGM jurisdiction not properly specified",
                  <<>>, "High", "jurisdiction")>>
     ELSE <<>>)
    \o FederalIssues(federal_patterns, doc_data.content)

\* _check_jurisdiction_compliance
_check_jurisdiction_compliance(doc_data, process_type) ==
    IF process_type \notin KnownProcessTypes THEN <<>>
    ELSE LET adgm_mentioned ==
                 \E req \in process_requirements(process_type).jurisdiction_requirements :
                     OccursExact(req, doc_data.content)
         IN  (IF ~adgm_mentioned
              THEN <<Issue("Jurisdiction Clause", 0, "ADGM jurisdiction not properly specified",
                           <<>>, "High", "jurisdiction")>>
              ELSE <<>>)
             \o FederalIssues(federal_patterns, doc_data.content)

\* _check_formatting_requirements
_check_formatting_requirements(doc_data) ==
    (IF ~doc_data.structure.has_signature_section
     THEN <<Issue("Document End", 0, "Missing signature section", <<>>, "Medium", "formatting")>>
     ELSE <<>>)
    \o (IF ~doc_data.structure.has_date_section
        THEN <<Issue("Document Header/Footer", 0, "Missing date section", <<>>,
                     "Low", "formatting")>>
        ELSE <<>>)
    \o (IF doc_data.structure.headings = 0
        THEN <<Issue("Document Structure", 0, "No proper heading structure found", <<>>,
                     "Low", "formatting")>>
        ELSE <<>>)

\* signature_elements of _check_signature_requirements
signature_elements ==
    <<[element |-> "signature", description |-> "Signature line"],
      [element |-> "witness", description |-> "Witness section"],
      [element |-> "date", description |-> "Date field"]>>

RECURSIVE MissingElements(_, _)
MissingElements(elements, content) ==
    IF elements = <<>> THEN <<>>
    ELSE (IF ~Occurs(Head(elements).element, content)
          THEN <<Head(elements).description>> ELSE <<>>)
         \o MissingElements(Tail(elements), content)

\* (an issue of its own for every missing element: mutant)
CheckSignaturePerElement(doc_data) ==
    LET missing_elements == MissingElements(signature_elements, doc_data.content)
    IN  [i \in 1..Len(missing_elements) |->
            Issue("Signature Section", 0, "Missing signature elements",
                  <<missing_elements[i]>>, "Medium", "signatures")]

\* _check_signature_requirements
_check_signature_requirements(doc_data) ==
    LET missing_elements == MissingElements(signature_elements, doc_data.content)
    IN  IF missing_elements # <<>>
        THEN <<Issue("Signature Section", 0, "Missing signature elements", missing_elements,
                     "Medium", "signatures")>>
        ELSE <<>>

\* total_checks = 6
total_checks == 6

\* set(issue['category'] for issue in issues)
Categories(issues) == {issues[i].category : i \in 1..Len(issues)}

\* compliance_score = max(0, (total_checks - failed_checks) / total_checks * 100),
\* as the fraction num / den
compliance_score(issues) ==
    LET failed_checks == Cardinality(Categories(issues))
        num == (total_checks - failed_checks) * 100
    IN  [num |-> IF num > 0 THEN num ELSE 0, den |-> total_checks]

\* 'checked_categories' of the returned dict
checked_categories ==
    <<"document_type", "red_flags", "mandatory_clauses", "jurisdiction", "formatting",
      "signatures">>

\* check_document: the six passes in order, then the score
check_document(doc_data, process_type) ==
    LET issues == _check_document_type_requirements(doc_data, process_type)
                  \o _detect_red_flags(doc_data)
                  \o _check_mandatory_clauses(doc_data, process_type)
                  \o _check_jurisdiction_compliance(doc_data, process_type)
                  \o _check_formatting_requirements(doc_data)
                  \o _check_signature_requirements(doc_data)
    IN  [is_compliant       |-> Len(issues) = 0,
         compliance_score   |-> compliance_score(issues),
         total_issues       |-> Len(issues),
         issues             |-> issues,
         checked_categories |-> checked_categories]

NoCheck ==
    [is_compliant |-> TRUE, compliance_score |-> [num |-> 0, den |-> 1], total_issues |-> 0,
     issues |-> <<>>, checked_categories |-> <<>>]

NoDocData ==
    [document_type |-> "", content |-> <<>>,
     structure |-> [headings |-> 0, has_signature_section |-> FALSE,
                    has_date_section |-> FALSE]]

\* A document is parsed and checked against a process type
check_document_call ==
    /\ chk_pc = "idle"
    /\ \E P \in SUBSET PhraseSet, layout \in Layouts, n \in 0..MaxHeadings,
          process_type \in ProcessTypes :
        \E doc_data \in {parse_document(Docx(P, layout, n))} :
            /\ chk_in' = [doc_data |-> doc_data, process_type |-> process_type]
            /\ chk_result' = check_document(doc_data, process_type)
    /\ chk_pc' = "done"
    /\ UNCHANGED <<gen_vars, legal_vars, rag_vars, app_vars, kb_vars, chunk_vars, main_vars, pair_vars>>

\* The phrases of the documents checked without a classified type
UntypedPhrases == {"ADGM", "board resolution", "signature"}

\* check_document on a dict that has no 'document_type' key
check_document_untyped_call ==
    /\ chk_pc = "idle"
    /\ \E P \in SUBSET UntypedPhrases, layout \in Layouts, n \in 0..MaxHeadings,
          process_type \in ProcessTypes :
        \E doc_data \in {[parse_document(Docx(P, layout, n))
                              EXCEPT !.document_type = MissingKey]} :
            /\ chk_in' = [doc_data |-> doc_data, process_type |-> process_type]
            /\ chk_result' = check_document(doc_data, process_type)
    /\ chk_pc' = "done"
    /\ UNCHANGED <<gen_vars, legal_vars, rag_vars, app_vars, kb_vars, chunk_vars, main_vars, pair_vars>>

\* The caller has the result
check_document_exit ==
    /\ chk_pc = "done"
    /\ chk_pc' = "idle"
    /\ chk_in' = [doc_data |-> NoDocData, process_type |-> ""]
    /\ chk_result' = NoCheck
    /\ UNCHANGED <<gen_vars, legal_vars, rag_vars, app_vars, kb_vars, chunk_vars, main_vars, pair_vars>>

\* ------------------------------------------------------------------------
\* ADGMCorporateAgent.process_documents

\* The sidebar options process_documents reads
Options == [check_compliance : BOOLEAN, detect_red_flags : BOOLEAN, add_comments : BOOLEAN]

NoOptions == [check_compliance |-> FALSE, detect_red_flags |-> FALSE, add_comments |-> FALSE]

\* What check_document returns, as far as process_documents reads it:
\* is_compliant and len(issues)
ComplianceResults ==
    {[is_compliant |-> TRUE, issues |-> 0],
     [is_compliant |-> FALSE, issues |-> 1],
     [is_compliant |-> FALSE, issues |-> 2]}

\* No dict: `return None`, or nothing returned yet
NoResults == [none |-> TRUE, documents |-> <<>>, overall_compliance |-> TRUE, total_issues |-> 0]

\* results as initialised before the loop
NewResults == [none |-> FALSE, documents |-> <<>>, overall_compliance |-> TRUE, total_issues |-> 0]

\* doc_data: the file it was parsed from and the keys process_documents adds
\* (rag_analysis, compliance, commented_document_path)
NoDoc ==
    [index |-> 0, rag_analysis |-> FALSE, compliance |-> FALSE, is_compliant |-> FALSE,
     issues |-> 0, commented_document_path |-> FALSE]

Event(step) == [step |-> step, i |-> app_i]

\* process_documents up to the first iteration of the loop: None for no
\* files, else results is initialised
process_documents ==
    /\ app_pc = "idle"
    /\ \E n \in 0..MaxBatch, o \in Options :
        /\ uploaded_files' = n
        /\ options' = o
        /\ IF n = 0
           THEN app_pc' = "returned" /\ app_results' = NoResults /\ app_i' = 0
           ELSE app_pc' = "save" /\ app_results' = NewResults /\ app_i' = 1
    /\ tmp_files' = {}
    /\ app_doc_data' = NoDoc
    /\ errors' = <<>>
    /\ events' = <<>>
    /\ UNCHANGED <<gen_vars, legal_vars, rag_vars, chk_vars, kb_vars, chunk_vars, main_vars, pair_vars>>

\* with tempfile.NamedTemporaryFile(delete=False, suffix='.docx') as tmp_file:
\*     tmp_file.write(uploaded_file.getvalue())
\* The block is outside the try statement: when the file cannot be created,
\* or when the write raises (the file then exists, closed and not deleted),
\* the exception leaves process_documents
save_upload ==
    /\ app_pc = "save"
    /\ events' = Append(events, Event("save"))
    /\ \E outcome \in {"saved", "create failed", "write failed"} :
        /\ tmp_files' = IF outcome = "create failed" THEN tmp_files ELSE tmp_files \cup {app_i}
        /\ app_pc' = IF outcome = "saved" THEN "parse" ELSE "raised"
    /\ UNCHANGED <<uploaded_files, options, app_i, app_doc_data, app_results, errors>>
    /\ UNCHANGED <<gen_vars, legal_vars, rag_vars, chk_vars, kb_vars, chunk_vars, main_vars, pair_vars>>

\* doc_data = self.document_parser.parse_document(tmp_file_path), which
\* raises for a file it cannot read
app_parse_document ==
    /\ app_pc = "parse"
    /\ events' = Append(events, Event("parse"))
    /\ \/ /\ app_doc_data' = [NoDoc EXCEPT !.index = app_i]
          /\ app_pc' = "analyze"
       \/ /\ UNCHANGED app_doc_data
          /\ app_pc' = "except"
    /\ UNCHANGED <<uploaded_files, options, app_i, tmp_files, app_results, errors>>
    /\ UNCHANGED <<gen_vars, legal_vars, rag_vars, chk_vars, kb_vars, chunk_vars, main_vars, pair_vars>>

\* if options['check_compliance'] or options['detect_red_flags']:
\*     doc_data['rag_analysis'] = self.rag_engine.analyze_document(...)
\* analyze_document returns a string on every path
app_analyze_document ==
    /\ app_pc = "analyze"
    /\ IF options.check_compliance \/ options.detect_red_flags
       THEN /\ app_doc_data' = [app_doc_data EXCEPT !.rag_analysis = TRUE]
            /\ events' = Append(events, Event("analysis"))
       ELSE UNCHANGED <<app_doc_data, events>>
    /\ app_pc' = "check"
    /\ UNCHANGED <<uploaded_files, options, app_i, tmp_files, app_results, errors>>
    /\ UNCHANGED <<gen_vars, legal_vars, rag_vars, chk_vars, kb_vars, chunk_vars, main_vars, pair_vars>>

\* if options['check_compliance']: check_document, then the aggregates
app_check_document ==
    /\ app_pc = "check"
    /\ IF options.check_compliance
       THEN /\ \E compliance_result \in ComplianceResults :
                /\ app_doc_data' = [app_doc_data EXCEPT !.compliance = TRUE,
                                    !.is_compliant = compliance_result.is_compliant,
                                    !.issues = compliance_result.issues]
                /\ app_results' =
                      IF ~compliance_result.is_compliant
                      THEN [app_results EXCEPT !.overall_compliance = FALSE,
                               !.total_issues = app_results.total_issues + compliance_result.issues]
                      ELSE app_results
            /\ events' = Append(events, Event("check"))
       ELSE UNCHANGED <<app_doc_data, app_results, events>>
    /\ app_pc' = "comment"
    /\ UNCHANGED <<uploaded_files, options, app_i, tmp_files, errors>>
    /\ UNCHANGED <<gen_vars, legal_vars, rag_vars, chk_vars, kb_vars, chunk_vars, main_vars, pair_vars>>

\* if options['add_comments'] and doc_data.get('compliance'): add_comments,
\* which returns the path of the annotated copy or raises; then
\* results['documents'].append(doc_data)
app_add_comments ==
    /\ app_pc = "comment"
    /\ IF options.add_comments /\ app_doc_data.compliance
       THEN /\ events' = Append(events, Event("comment"))
            /\ \/ /\ app_doc_data' = [app_doc_data EXCEPT !.commented_document_path = TRUE]
                  /\ app_results' = [app_results EXCEPT !.documents = Append(@, app_doc_data')]
                  /\ app_pc' = "finally"
               \/ /\ UNCHANGED <<app_doc_data, app_results>>
                  /\ app_pc' = "except"
       ELSE /\ app_results' = [app_results EXCEPT !.documents = Append(@, app_doc_data)]
            /\ app_pc' = "finally"
            /\ UNCHANGED <<app_doc_data, events>>
    /\ UNCHANGED <<uploaded_files, options, app_i, tmp_files, errors>>
    /\ UNCHANGED <<gen_vars, legal_vars, rag_vars, chk_vars, kb_vars, chunk_vars, main_vars, pair_vars>>

\* except Exception as e: st.error(...)
app_except ==
    /\ app_pc = "except"
    /\ errors' = Append(errors, app_i)
    /\ app_pc' = "finally"
    /\ UNCHANGED <<uploaded_files, options, app_i, tmp_files, app_doc_data, app_results, events>>
    /\ UNCHANGED <<gen_vars, legal_vars, rag_vars, chk_vars, kb_vars, chunk_vars, main_vars, pair_vars>>

\* The temporary file left on disk
UnlinkSkipped(files, i) == files

\* if os.path.exists(tmp_file_path): os.unlink(tmp_file_path)
Unlink(files, i) == files \ {i}

\* finally: if os.path.exists(tmp_file_path): os.unlink(tmp_file_path);
\* then the next file, or `return results` after the last one
app_finally ==
    /\ app_pc = "finally"
    /\ tmp_files' = Unlink(tmp_files, app_i)
    /\ events' = Append(events, Event("delete"))
    /\ IF app_i < uploaded_files
       THEN app_i' = app_i + 1 /\ app_pc' = "save"
       ELSE app_i' = app_i /\ app_pc' = "returned"
    /\ app_doc_data' = NoDoc
    /\ UNCHANGED <<uploaded_files, options, app_results, errors>>
    /\ UNCHANGED <<gen_vars, legal_vars, rag_vars, chk_vars, kb_vars, chunk_vars, main_vars, pair_vars>>

\* The caller has the result, or the exception
process_documents_exit ==
    /\ app_pc \in {"returned", "raised"}
    /\ app_pc' = "idle"
    /\ uploaded_files' = 0
    /\ options' = NoOptions
    /\ app_i' = 0
    /\ tmp_files' = {}
    /\ app_doc_data' = NoDoc
    /\ app_results' = NoResults
    /\ errors' = <<>>
    /\ events' = <<>>
    /\ UNCHANGED <<gen_vars, legal_vars, rag_vars, chk_vars, kb_vars, chunk_vars, main_vars, pair_vars>>

\* ------------------------------------------------------------------------
\* RAGEngine: construction, ingestion of the reference corpus, refresh
\*
\* The module defines `class RAGEngine` twice.  The second class statement
\* rebinds the name, so an engine is built by the __init__ of lines 37-74,
\* which never assigns `pc`; only the __init__ of the first class body does.
\* has_pc = FALSE is the engine the module as written builds.  The methods
\* below that __init__ all go through self.pc or self.index, so has_pc = TRUE
\* is the engine they are written for; it is kept as an input of the
\* construction so that the code behind _setup_index can be checked.

\* The credentials a process is started with, in the secrets or the
\* environment
Envs == [PINECONE_API_KEY : BOOLEAN, GEMINI_API_KEY : BOOLEAN]

NoEnv == [PINECONE_API_KEY |-> FALSE, GEMINI_API_KEY |-> FALSE]

\* the number of files of the manifest
ManifestSize == 2

\* the keys of official_documents and of document_metadata, in dict order
official_documents == 1 .. ManifestSize

\* the document id of the in-memory regulations summary
adgm_regulations_2020 == 0

\* the defaults of _chunk_content
chunk_size == 1000

overlap == 200

\* len(_get_adgm_regulations_summary().split())
regulations_words == 193

\* the records of one index.upsert call
batch_size == 100

\* time.sleep before connecting and after delete_all
connect_delay == 5

settle_delay == 10

Min(a, b) == IF a <= b THEN a ELSE b

\* range(0, n, step), as the sequence of its values
Range(n, step) == [k \in 1 .. ((n + step - 1) \div step) |-> (k - 1) * step]

\* words[i:i + size] of a list of n words: the 0-based positions it covers
\* (last < first when the slice is empty)
Slice(n, i, size) == [first |-> i, last |-> Min(i + size, n) - 1]

\* Chunks laid end to end, with no overlap
ChunkStepNoOverlap(size, lap) == size

\* The step of the loop of _chunk_content
ChunkStep(size, lap) == size - lap

\* _chunk_content(content) for a content of n words.  A word of
\* content.split() is never empty, so ' '.join(slice).strip() is empty
\* exactly when the slice is.
_chunk_content(n) ==
    LET starts == Range(n, ChunkStep(chunk_size, overlap))
        all == [k \in 1 .. Len(starts) |-> Slice(n, starts[k], chunk_size)]
    IN  SelectSeq(all, LAMBDA chunk : chunk.last >= chunk.first)

\* A file of docs_dir: whether it exists, whether Document() can open it and
\* how many words its text has
Absent == [exists |-> FALSE, readable |-> FALSE, words |-> 0]

Unreadable == [exists |-> TRUE, readable |-> FALSE, words |-> 0]

Readable(words) == [exists |-> TRUE, readable |-> TRUE, words |-> words]

\* Word counts of the manifest files: no text, one chunk, two chunks
FileWords == {0, 1, chunk_size + 1}

FileStates == {Absent, Unreadable} \cup {Readable(w) : w \in FileWords}

\* What an attempted download leaves behind: urlopen raised (no file), the
\* write raised after open() created the file, or the file was written
DownloadResults == [ok : {FALSE}, file : {Absent, Unreadable}] \cup [ok : {TRUE}, file : FileStates \ {Absent}]

\* The index as found when the engine is constructed
IndexContents ==
    {{}, {<<adgm_regulations_2020, 0>>}, {<<adgm_regulations_2020, 0>>, <<1, 0>>, <<1, 1>>}}

\* A record whose id leaves out the document
VectorByChunkOnly(document_id, i) == [id |-> <<adgm_regulations_2020, i>>, is_official |-> TRUE]

\* One staged record: its id is f"{document_id}_chunk_{i}"
Vector(document_id, i) == [id |-> <<document_id, i>>, is_official |-> TRUE]

\* The records staged for the chunks of one document
Vectors(document_id, n) ==
    [k \in 1 .. Len(_chunk_content(n)) |-> Vector(document_id, k - 1)]

\* _read_docx_file: the text of the file, "" when Document() raises
_read_docx_file(file) == IF file.readable THEN file.words ELSE 0

KbEvent(call, arg, ok) == [call |-> call, arg |-> arg, ok |-> ok]

\* main, lines 397-398: ADGMCorporateAgent() is entered; DocumentParser()
\* reads no configuration
main ==
    /\ main_pc = "idle"
    /\ main_pc' = "constructing"
    /\ env' \in Envs
    /\ UNCHANGED <<gen_vars, legal_vars, rag_vars, chk_vars, app_vars, kb_vars, chunk_vars, pair_vars>>

\* Only the index credential checked
IndexCredentialPresent(e) == e.PINECONE_API_KEY

\* Whether __init__ gets as far as _setup_index: ValueError at line 46
\* without the index credential, ValueError out of GeminiClient() at line 59
\* without the generation credential
CredentialsPresent(e) == e.PINECONE_API_KEY /\ e.GEMINI_API_KEY

\* __init__, lines 37-59: the credentials, the embedding model, the client.
\* The account, the index and docs_dir are what the engine finds.
RAGEngine_init ==
    /\ main_pc = "constructing"
    /\ kb_pc = "idle"
    /\ \E pc_bound \in BOOLEAN :
       \E listed \in BOOLEAN, found \in IndexContents, files \in [official_documents -> FileStates] :
        /\ kb_pc' = IF CredentialsPresent(env) THEN "setup" ELSE "raised"
        /\ has_pc' = pc_bound
        /\ index_exists' = listed
        /\ index_records' = IF listed THEN found ELSE {}
        /\ index_before' = index_records'
        /\ docs_dir' = files
    /\ kb_op' = "__init__"
    /\ UNCHANGED <<kb_i, vectors, kb_events>>
    /\ UNCHANGED <<gen_vars, legal_vars, rag_vars, chk_vars, app_vars, chunk_vars, main_vars, pair_vars>>

\* _setup_index, called at line 62.  Every exception is re-raised; without
\* `pc` the first statement raises AttributeError before any call is made.
_setup_index ==
    /\ kb_pc = "setup"
    /\ IF ~has_pc
       THEN /\ kb_pc' = "raised"
            /\ UNCHANGED <<index_exists, kb_events>>
       ELSE \E list_ok \in BOOLEAN, create_ok \in BOOLEAN :
            LET list == KbEvent("list_indexes", 0, list_ok)
                create == KbEvent("create_index", 0, create_ok)
            IN  IF ~list_ok
                THEN /\ kb_events' = Append(kb_events, list)
                     /\ kb_pc' = "raised"
                     /\ UNCHANGED index_exists
                ELSE IF index_exists
                THEN /\ kb_events' = Append(kb_events, list)
                     /\ kb_pc' = "connect"
                     /\ UNCHANGED index_exists
                ELSE /\ kb_events' = kb_events \o <<list, create>>
                     /\ kb_pc' = IF create_ok THEN "connect" ELSE "raised"
                     /\ index_exists' = create_ok
    /\ UNCHANGED <<kb_op, has_pc, index_records, index_before, docs_dir, kb_i, vectors>>
    /\ UNCHANGED <<gen_vars, legal_vars, rag_vars, chk_vars, app_vars, chunk_vars, main_vars, pair_vars>>

\* __init__, lines 63-66: the delay, then self.index = self.pc.Index(name)
connect_index ==
    /\ kb_pc = "connect"
    /\ \E ok \in BOOLEAN :
        /\ kb_events' = kb_events \o <<KbEvent("sleep", connect_delay, TRUE), KbEvent("Index", 0, ok)>>
        /\ kb_pc' = IF ok THEN "check" ELSE "raised"
    /\ UNCHANGED <<kb_op, has_pc, index_exists, index_records, index_before, docs_dir, kb_i, vectors>>
    /\ UNCHANGED <<gen_vars, legal_vars, rag_vars, chk_vars, app_vars, chunk_vars, main_vars, pair_vars>>

\* What _is_index_empty returns: total_vector_count == 0, and True when
\* describe_index_stats raises
IndexEmpty(stats_ok, total_vector_count) ==
    IF stats_ok THEN total_vector_count = 0 ELSE TRUE

\* __init__, lines 69-72: `if self._is_index_empty():` download and populate
_is_index_empty ==
    /\ kb_pc = "check"
    /\ \E stats_ok \in BOOLEAN :
        /\ kb_events' = Append(kb_events, KbEvent("describe_index_stats", 0, stats_ok))
        /\ kb_pc' = IF IndexEmpty(stats_ok, Cardinality(index_records)) THEN "download" ELSE "ready"
    /\ kb_i' = 1
    /\ UNCHANGED <<kb_op, has_pc, index_exists, index_records, index_before, docs_dir, vectors>>
    /\ UNCHANGED <<gen_vars, legal_vars, rag_vars, chk_vars, app_vars, chunk_vars, main_vars, pair_vars>>

\* Where the loop over the manifest goes after file kb_i
AfterFile(next_pc) == IF kb_i = ManifestSize THEN next_pc ELSE kb_pc

\* _download_official_documents: one pass of the loop of lines 122-142.  A
\* file that exists is not fetched; a failed fetch is printed and skipped.
download_document ==
    /\ kb_pc = "download"
    /\ IF docs_dir[kb_i].exists
       THEN UNCHANGED <<docs_dir, kb_events>>
       ELSE \E result \in DownloadResults :
            /\ docs_dir' = [docs_dir EXCEPT ![kb_i] = result.file]
            /\ kb_events' = Append(kb_events, KbEvent("urlopen", kb_i, result.ok))
    /\ kb_pc' = AfterFile("populate")
    /\ kb_i' = IF kb_i = ManifestSize THEN 1 ELSE kb_i + 1
    /\ UNCHANGED <<kb_op, has_pc, index_exists, index_records, index_before, vectors>>
    /\ UNCHANGED <<gen_vars, legal_vars, rag_vars, chk_vars, app_vars, chunk_vars, main_vars, pair_vars>>

\* Staging that stops at the first file that cannot be used
StagedUntilFailure(document_id, file) ==
    IF \E d \in 1 .. document_id : ~(docs_dir[d].exists /\ docs_dir[d].readable)
    THEN <<>>
    ELSE Vectors(document_id, file.words)

\* A file with as many chunks as one upsert takes
LargeFile == Readable(batch_size * ChunkStep(chunk_size, overlap))

\* The files _populate_from_official_documents can find in docs_dir when it
\* is called
PopulateFiles == {Absent, Unreadable, Readable(1), Readable(chunk_size + 1), LargeFile}

\* _populate_from_official_documents is called (lines 72 and 408), lines
\* 144-200: whatever files docs_dir holds, whatever the index holds
_populate_from_official_documents ==
    /\ kb_pc = "idle"
    /\ kb_op' = "_populate_from_official_documents"
    /\ \E files \in [official_documents -> PopulateFiles], found \in IndexContents :
        /\ docs_dir' = files
        /\ index_records' = found
        /\ index_before' = found
    /\ has_pc' = TRUE
    /\ index_exists' = TRUE
    /\ kb_pc' = "populate"
    /\ kb_i' = 1
    /\ vectors' = <<>>
    /\ UNCHANGED kb_events
    /\ UNCHANGED <<gen_vars, legal_vars, rag_vars, chk_vars, app_vars, chunk_vars, main_vars, pair_vars>>

\* What one pass of the loop of lines 202-242 stages for a file: nothing
\* when it does not exist or has no text
StagedFor(document_id, file) ==
    IF file.exists /\ _read_docx_file(file) > 0
    THEN Vectors(document_id, _read_docx_file(file))
    ELSE <<>>

\* _populate_from_official_documents: one pass of the loop of lines 202-242
populate_document ==
    /\ kb_pc = "populate"
    /\ vectors' = vectors \o StagedFor(kb_i, docs_dir[kb_i])
    /\ kb_pc' = AfterFile("summary")
    /\ kb_i' = IF kb_i = ManifestSize THEN 0 ELSE kb_i + 1
    /\ UNCHANGED <<kb_op, has_pc, index_exists, index_records, index_before, docs_dir, kb_events>>
    /\ UNCHANGED <<gen_vars, legal_vars, rag_vars, chk_vars, app_vars, chunk_vars, main_vars, pair_vars>>

\* _populate_from_official_documents, lines 245-268: the chunks of the
\* regulations summary are staged; `if vectors:` guards the upserts
populate_summary ==
    /\ kb_pc = "summary"
    /\ vectors' = vectors \o Vectors(adgm_regulations_2020, regulations_words)
    /\ kb_events' = Append(kb_events, KbEvent("_get_adgm_regulations_summary", 0, TRUE))
    /\ kb_pc' = IF vectors' # <<>> THEN "upsert" ELSE "ready"
    /\ kb_i' = 0
    /\ UNCHANGED <<kb_op, has_pc, index_exists, index_records, index_before, docs_dir>>
    /\ UNCHANGED <<gen_vars, legal_vars, rag_vars, chk_vars, app_vars, chunk_vars, main_vars, pair_vars>>

\* vectors[i:i + batch_size], as the ids of its records
Batch(i) == {vectors[k].id : k \in (i + 1) .. Min(i + batch_size, Len(vectors))}

\* The loop abandoned at the first failed upsert
AfterBatchStopOnFailure(ok, next) ==
    IF ok /\ next < Len(vectors) THEN "upsert" ELSE "ready"

\* Where the loop of range(0, len(vectors), batch_size) goes after a batch,
\* whether the upsert returned or raised
AfterBatch(ok, next) == IF next < Len(vectors) THEN "upsert" ELSE "ready"

\* _populate_from_official_documents: one pass of the loop of lines 270-276.
\* A failed upsert is printed and the loop goes on.
upsert_batch ==
    /\ kb_pc = "upsert"
    /\ \E ok \in BOOLEAN :
        /\ index_records' = IF ok THEN index_records \cup Batch(kb_i) ELSE index_records
        /\ kb_events' = Append(kb_events, KbEvent("upsert", kb_i, ok))
        /\ kb_pc' = AfterBatch(ok, kb_i + batch_size)
    /\ kb_i' = kb_i + batch_size
    /\ UNCHANGED <<kb_op, has_pc, index_exists, index_before, docs_dir, vectors>>
    /\ UNCHANGED <<gen_vars, legal_vars, rag_vars, chk_vars, app_vars, chunk_vars, main_vars, pair_vars>>

\* The delete's exception swallowed: the rebuild goes on regardless
AfterDeleteSwallowed(ok) == "settle"

\* Where force_refresh_knowledge_base goes after index.delete(delete_all=True):
\* the call is not inside a try, so its exception leaves the method
AfterDelete(ok) == IF ok THEN "settle" ELSE "raised"

\* force_refresh_knowledge_base, line 401, on a constructed engine
force_refresh_knowledge_base ==
    /\ kb_pc = "ready"
    /\ kb_op = "__init__"
    /\ kb_op' = "force_refresh_knowledge_base"
    /\ index_before' = index_records
    /\ \E ok \in BOOLEAN :
        /\ kb_events' = Append(kb_events, KbEvent("delete_all", 0, ok))
        /\ index_records' = IF ok THEN {} ELSE index_records
        /\ kb_pc' = AfterDelete(ok)
    /\ vectors' = <<>>
    /\ UNCHANGED <<has_pc, index_exists, docs_dir, kb_i>>
    /\ UNCHANGED <<gen_vars, legal_vars, rag_vars, chk_vars, app_vars, chunk_vars, main_vars, pair_vars>>

\* force_refresh_knowledge_base, line 404: time.sleep(10), then the rebuild
settle ==
    /\ kb_pc = "settle"
    /\ kb_events' = Append(kb_events, KbEvent("sleep", settle_delay, TRUE))
    /\ kb_pc' = "download"
    /\ kb_i' = 1
    /\ UNCHANGED <<kb_op, has_pc, index_exists, index_records, index_before, docs_dir, vectors>>
    /\ UNCHANGED <<gen_vars, legal_vars, rag_vars, chk_vars, app_vars, chunk_vars, main_vars, pair_vars>>

\* ADGMCorporateAgent.__init__, lines 89-91, once RAGEngine() has returned,
\* then main, line 399: agent.run()
agent_run ==
    /\ main_pc = "constructing"
    /\ kb_op = "__init__"
    /\ kb_pc = "ready"
    /\ main_pc' = "run"
    /\ UNCHANGED env
    /\ UNCHANGED <<gen_vars, legal_vars, rag_vars, chk_vars, app_vars, kb_vars, chunk_vars, pair_vars>>

\* main, lines 400-402: the exception of the construction is reported
main_except ==
    /\ main_pc = "constructing"
    /\ kb_op = "__init__"
    /\ kb_pc = "raised"
    /\ main_pc' = "error"
    /\ UNCHANGED env
    /\ UNCHANGED <<gen_vars, legal_vars, rag_vars, chk_vars, app_vars, kb_vars, chunk_vars, pair_vars>>

\* _chunk_content called on a content of n words
_chunk_content_call ==
    /\ chunk_n = 0
    /\ chunks_out = <<>>
    /\ \E n \in 1 .. MaxWords :
        /\ chunk_n' = n
        /\ chunks_out' = _chunk_content(n)
    /\ UNCHANGED <<gen_vars, legal_vars, rag_vars, chk_vars, app_vars, kb_vars, main_vars, pair_vars>>

\* ------------------------------------------------------------------------
\* Initial state and the specifications

Init ==
    /\ gen_pc = "idle"
    /\ gen_caller = "nobody"
    /\ attempt = 0
    /\ outcomes = <<>>
    /\ sleeps = <<>>
    /\ gen_result = [none |-> TRUE, text |-> NoText]
    /\ legal_pc = "idle"
    /\ legal_result = LegalNone
    /\ rag_pc = "idle"
    /\ rag_in = NoRagIn
    /\ queries = <<>>
    /\ matches = <<>>
    /\ prompt = NoPrompt
    /\ rag_result = RagNone
    /\ search_result = <<>>
    /\ chk_pc = "idle"
    /\ chk_in = [doc_data |-> NoDocData, process_type |-> ""]
    /\ chk_result = NoCheck
    /\ app_pc = "idle"
    /\ uploaded_files = 0
    /\ options = NoOptions
    /\ app_i = 0
    /\ tmp_files = {}
    /\ app_doc_data = NoDoc
    /\ app_results = NoResults
    /\ errors = <<>>
    /\ events = <<>>
    /\ kb_pc = "idle"
    /\ kb_op = "none"
    /\ has_pc = FALSE
    /\ index_exists = FALSE
    /\ index_records = {}
    /\ index_before = {}
    /\ docs_dir = [d \in official_documents |-> "absent"]
    /\ kb_i = 0
    /\ vectors = <<>>
    /\ kb_events = <<>>
    /\ chunk_n = 0
    /\ chunks_out = <<>>
    /\ main_pc = "idle"
    /\ env = NoEnv
    /\ pair_pc = "idle"
    /\ pair_in = [first |-> <<>>, second |-> <<>>, process_type |-> ""]
    /\ pair_matches = <<<<>>, <<>>>>
    /\ pair_prompts = <<NoPrompt, NoPrompt>>

\* ------------------------------------------------------------------------
\* The generation client

NextGen ==
    \/ generate_response
    \/ generate_content
    \/ backoff_sleep
    \/ generate_response_exit
    \/ analyze_legal_document
    \/ analyze_legal_document_return
    \/ analyze_legal_document_exit

SpecGen == Init /\ [][NextGen]_vars

\* A failed attempt: generate_content raised, or the text read is empty
Failed(out) == out.raised \/ out.text = <<>>

\* C5: generate_response calls the model at most 3 times; only the last
\* call can be a success, and then its text is what is returned; a failed
\* attempt before the third is retried; after the third failure the method
\* raises, and it never returns an empty result.
C5_AtMostThreeAttempts ==
    /\ Len(outcomes) <= 3
    /\ \A i \in 1..(Len(outcomes) - 1) : Failed(outcomes[i])
    /\ gen_pc = "attempt" => Len(outcomes) < 3
    /\ gen_pc = "sleep" => Len(outcomes) < 3 /\ Failed(outcomes[Len(outcomes)])
    /\ gen_pc = "returned" =>
          /\ ~gen_result.none
          /\ gen_result.text # <<>>
          /\ outcomes[Len(outcomes)] = [raised |-> FALSE, text |-> gen_result.text]
    /\ gen_pc = "raised" =>
          /\ Len(outcomes) = 3
          /\ \A i \in 1..3 : Failed(outcomes[i])

\* Three attempts failed, one by raising and one by an empty text, and
\* generate_response raised
C5_Witness ==
    /\ gen_pc = "raised"
    /\ Len(outcomes) = 3
    /\ \E i, j \in 1..3 : outcomes[i].raised /\ ~outcomes[j].raised

\* C6: the waits are 1 second after the first failed attempt and 2 seconds
\* after the second; there is no wait after a success or after the last
\* failure, so a call whose attempts all fail waits 3 seconds in total.
C6_BackoffSchedule ==
    /\ sleeps \in {<<>>, <<1>>, <<1, 2>>}
    /\ gen_pc = "attempt" => Len(sleeps) = Len(outcomes)
    /\ gen_pc \in {"sleep", "returned"} => Len(sleeps) = Len(outcomes) - 1
    /\ gen_pc = "raised" => sleeps = <<1, 2>> /\ sleeps[1] + sleeps[2] = 3

\* A call that failed three times and waited twice
C6_Witness ==
    /\ gen_pc = "raised"
    /\ sleeps = <<1, 2>>

\* The text has no "{" or no "}" at all: no brace span
NoBraceSpan(text) ==
    \/ \A i \in 1..Len(text) : text[i] # "{"
    \/ \A i \in 1..Len(text) : text[i] # "}"

\* The result carries the raw text and a compliance_assessment
IsDegraded(r, text) ==
    /\ r.kind = "degraded"
    /\ r.has_full_response
    /\ r.full_response = text
    /\ r.compliance_assessment.present

\* C7: analyze_legal_document never raises; a response that is not parsed
\* (in particular one with no brace span) gives the degraded dict with the
\* raw text under full_response and a compliance_assessment; a failed
\* generation gives a dict with an error field and a compliance_assessment.
C7_NeverRaises ==
    legal_pc = "done" =>
        /\ legal_result.kind \in {"parsed", "degraded", "error"}
        /\ gen_pc = "returned" =>
              /\ legal_result.kind \in {"parsed", "degraded"}
              /\ legal_result.kind # "parsed" => IsDegraded(legal_result, gen_result.text)
              /\ NoBraceSpan(gen_result.text) => IsDegraded(legal_result, gen_result.text)
        /\ gen_pc = "raised" =>
              /\ legal_result.kind = "error"
              /\ legal_result.has_error
              /\ legal_result.compliance_assessment.present

\* Generation failed after its retries and the method returned the error dict
C7_Witness ==
    /\ legal_pc = "done"
    /\ gen_pc = "raised"
    /\ legal_result.kind = "error"

\* The first brace-delimited span of the text: it starts at the first "{"
\* and is a well-formed JSON object
FirstSpan(text) ==
    LET i == PyFind(text, "{")
    IN  IF i = -1 THEN [ok |-> FALSE, next |-> 0, depth |-> 0]
        ELSE ParseObject(text, i + 1)

\* C8: whenever the first brace-delimited span of the response is a
\* well-formed JSON object, analyze_legal_document returns its parsed value,
\* whatever precedes or follows the span.
C8_FirstSpanParsed ==
    (legal_pc = "done" /\ gen_pc = "returned" /\ FirstSpan(gen_result.text).ok) =>
        /\ legal_result.kind = "parsed"
        /\ legal_result.value = FirstSpan(gen_result.text).depth

\* The text from the first "{" to the last "}" of the response, empty when
\* there is no such span
OuterSpan(text) ==
    LET opens  == {i \in 1..Len(text) : text[i] = "{"}
        closes == {i \in 1..Len(text) : text[i] = "}"}
    IN  IF opens = {} \/ closes = {} THEN <<>>
        ELSE LET first == CHOOSE i \in opens : \A j \in opens : i <= j
                 last  == CHOOSE i \in closes : \A j \in closes : i >= j
             IN  IF first > last THEN <<>> ELSE SubSeq(text, first, last)

\* C8 as amended: the span parsed runs from the first "{" to the last "}"
\* of the response.  When that span is a well-formed JSON object its parsed
\* value is returned, whatever brace-free text precedes or follows it; when
\* it is not (in particular when a further "}" follows the first object)
\* the degraded dict with the raw text is returned.
C8_OuterSpanParsed ==
    (legal_pc = "done" /\ gen_pc = "returned") =>
        IF json_loads(OuterSpan(gen_result.text)).ok
        THEN /\ legal_result.kind = "parsed"
             /\ legal_result.value = json_loads(OuterSpan(gen_result.text)).value
        ELSE IsDegraded(legal_result, gen_result.text)

\* A nested object wrapped in prose was parsed
C8_Witness ==
    /\ legal_pc = "done"
    /\ gen_pc = "returned"
    /\ gen_result.text = <<"t", "{", "k", "{", "}", "}">>
    /\ legal_result.kind = "parsed"
    /\ legal_result.value = 2

\* ------------------------------------------------------------------------
\* The retrieval-augmented analyzer

NextRAG ==
    \/ analyze_document
    \/ generate_content
    \/ backoff_sleep
    \/ analyze_document_return
    \/ search_knowledge_base
    \/ rag_exit

SpecRAG == Init /\ [][NextRAG]_vars

\* x is one of the elements of the text
InText(x, text) == \E i \in 1..Len(text) : text[i] = x

\* The number of matches the index returned with a score above the threshold
Above(threshold) == Cardinality({i \in 1..Len(matches) : matches[i].score > threshold})

\* C1: analyze_document never raises: it returns the generated text, and
\* when the embedding, the index query or the generation (after its
\* retries) fails it returns the error string made from that exception.
C1_AnalyzeNeverRaises ==
    rag_pc = "done" =>
        /\ rag_result.kind \in {"text", "error"}
        /\ rag_result.kind = "error" =>
              rag_result.exc \in {"RuntimeError", "PineconeException", "Exception"}
        /\ queries = <<>> => rag_result.kind = "error"
        /\ gen_pc = "raised" => rag_result.kind = "error" /\ rag_result.exc = "Exception"
        /\ gen_pc = "returned" => rag_result.kind = "text" /\ rag_result.text = gen_result.text

\* The embedding and the query succeeded, generation failed three times,
\* and analyze_document returned the error string
C1_Witness ==
    /\ rag_pc = "done"
    /\ gen_pc = "raised"
    /\ Len(outcomes) = 3
    /\ rag_result.kind = "error"

\* C2: no chunk of a match whose score is 0.7 or less is in the context
\* block of the prompt.
C2_ContextAboveThreshold ==
    rag_pc \in {"generating", "done"} =>
        \A i \in 1..Len(matches) :
            matches[i].score <= 70 => ~InText(matches[i].id, prompt.context)

\* The index returned a match scoring exactly 0.7 after one that passes,
\* and the prompt is built
C2_Witness ==
    /\ rag_pc = "generating"
    /\ \E i, j \in 1..Len(matches) : matches[i].score > 70 /\ matches[j].score = 70
    /\ prompt.context # <<>>

\* C3: analyze_document asks for the top 5 official neighbours; the context
\* is made of the first 3 matches that pass the threshold, in the order of
\* the (descending) result, separated by blank lines; a fourth or fifth
\* passing match is not in it.
C3_TopFiveFirstThree ==
    (rag_pc \in {"generating", "done"} /\ queries # <<>>) =>
        /\ queries = <<[top_k |-> 5, include_metadata |-> TRUE, filter_official |-> TRUE]>>
        /\ Len(matches) <= 5
        /\ \A i \in 1..Len(matches) : matches[i].is_official
        /\ LET k == IF Above(70) < 3 THEN Above(70) ELSE 3
           IN  /\ Len(prompt.context) = IF k = 0 THEN 0 ELSE 2 * k - 1
               /\ \A j \in 1..k : prompt.context[2 * j - 1] = matches[j].id
               /\ \A j \in 1..(k - 1) : prompt.context[2 * j] = Separator
               /\ \A i \in 1..Len(matches) :
                     InText(matches[i].id, prompt.context) <=> i <= k

\* Five matches pass the threshold and the context holds three chunks
C3_Witness ==
    /\ rag_pc = "generating"
    /\ Len(matches) = 5
    /\ \A i \in 1..5 : matches[i].score > 70
    /\ matches[1].score > matches[5].score
    /\ Len(prompt.context) = 5

\* C4: search_knowledge_base returns the records of exactly the matches
\* scoring above 0.6, in the order of the index; none at 0.6 or below; each
\* of its queries filters on is_official.
C4_SearchAboveThreshold ==
    rag_pc = "searched" =>
        /\ \A q \in 1..Len(queries) : queries[q].filter_official
        /\ \A j \in 1..Len(search_result) : search_result[j].score > 60
        /\ Len(search_result) = Above(60)
        /\ \A j \in 1..Len(search_result) :
              /\ search_result[j].content = matches[j].id
              /\ search_result[j].score = matches[j].score

\* The index returned a match at exactly 0.6 behind matches above it
C4_Witness ==
    /\ rag_pc = "searched"
    /\ \E i \in 1..Len(matches) : matches[i].score = 60
    /\ Len(search_result) >= 2

\* ------------------------------------------------------------------------
\* The compliance checker

NextChecker ==
    \/ check_document_call
    \/ check_document_untyped_call
    \/ check_document_exit

SpecChecker == Init /\ [][NextChecker]_vars

\* The names of the six passes
PassNames ==
    {"document_type", "red_flags", "mandatory_clauses", "jurisdiction", "formatting",
     "signatures"}

\* The categories the passes give to their issues
IssueCategories ==
    {"document_type", "jurisdiction", "completeness", "clarity", "formatting",
     "mandatory_clauses", "signatures"}

\* C9: every issue check_document returns has one of the six pass names as
\* its category, at most 6 distinct categories are flagged, and the score is
\* max(0, (6 - distinct flagged categories) / 6 * 100).
C9_SixPassCategories ==
    chk_pc = "done" =>
        LET issues   == chk_result.issues
            distinct == Cardinality({issues[i].category : i \in 1..Len(issues)})
        IN  /\ \A i \in 1..Len(issues) : issues[i].category \in PassNames
            /\ distinct <= 6
            /\ chk_result.compliance_score =
                  [num |-> IF distinct < 6 THEN (6 - distinct) * 100 ELSE 0, den |-> 6]

\* C10: for the issue sequence of any result, one more issue in a category
\* not yet flagged makes the score strictly smaller, and one more issue in a
\* flagged category leaves the score as it is.
C10_ScoreMonotone ==
    chk_pc = "done" =>
        \A category \in IssueCategories :
            LET issues == chk_result.issues
                added  == Append(issues, Issue("", 0, "", <<>>, "Low", category))
            IN  IF category \in Categories(issues)
                THEN compliance_score(added).num = compliance_score(issues).num
                ELSE compliance_score(added).num < compliance_score(issues).num

\* The pass an issue comes from, by the location the pass gives its issues
PassIndex(issue) ==
    CASE issue.location = "Document Type" -> 1
      [] issue.location = "Paragraph" -> 2
      [] issue.location = "Document Content" -> 3
      [] issue.location \in {"Jurisdiction Clause", "Jurisdiction Reference"} -> 4
      [] issue.location \in {"Document End", "Document Header/Footer", "Document Structure"} -> 5
      [] issue.location = "Signature Section" -> 6

\* The number of issues of the sequence with the given location
IssuesAt(issues, location) ==
    Cardinality({i \in 1..Len(issues) : issues[i].location = location})

\* C11: is_compliant is true exactly when there is no issue; total_issues is
\* the length of the issue sequence; the issues are in the order of the
\* passes (document type, red flags, mandatory clauses, jurisdiction,
\* formatting, signatures); nothing is deduplicated: there is one issue for
\* every red-flag match, every missing clause and every federal reference
\* found, even when two of them are equal.
C11_OrderedNotDeduplicated ==
    chk_pc = "done" =>
        LET issues  == chk_result.issues
            content == chk_in.doc_data.content
            known   == chk_in.process_type \in KnownProcessTypes
            clauses == IF known THEN process_requirements(chk_in.process_type).mandatory_clauses
                       ELSE <<>>
        IN  /\ chk_result.is_compliant <=> issues = <<>>
            /\ chk_result.total_issues = Len(issues)
            /\ \A i \in 1..(Len(issues) - 1) : PassIndex(issues[i]) <= PassIndex(issues[i + 1])
            /\ IssuesAt(issues, "Paragraph") =
                  Cardinality({fi \in (1..Len(red_flag_patterns)) \X (1..Len(content)) :
                                  MatchesAt(red_flag_patterns[fi[1]].pattern, content, fi[2])})
            /\ IssuesAt(issues, "Document Content") =
                  Cardinality({k \in 1..Len(clauses) : ~Occurs(clauses[k], content)})
            /\ IssuesAt(issues, "Jurisdiction Reference") =
                  IF known
                  THEN Cardinality({k \in 1..Len(federal_patterns) :
                                       FederalFound(federal_patterns[k], content)})
                  ELSE 0

\* A result with issues of all six passes, two of them equal
C11_Witness ==
    /\ chk_pc = "done"
    /\ {PassIndex(chk_result.issues[i]) : i \in 1..Len(chk_result.issues)} = 1..6
    /\ \E i, j \in 1..Len(chk_result.issues) :
          i < j /\ chk_result.issues[i] = chk_result.issues[j]
    /\ ~chk_result.is_compliant

\* The text contains the phrase
Contains(content, phrase) == \E i \in 1..Len(content) : content[i] = phrase

\* A red-flag issue (severity High, category jurisdiction) and the issues of
\* the jurisdiction pass (severity High) are in the result, which is not
\* compliant
FederalCourtReported ==
    /\ \E i \in 1..Len(chk_result.issues) :
          /\ PassIndex(chk_result.issues[i]) = 2
          /\ chk_result.issues[i].severity = "High"
          /\ chk_result.issues[i].category = "jurisdiction"
          /\ chk_result.issues[i].detail = <<"UAE Federal Court">>
    /\ \E i \in 1..Len(chk_result.issues) :
          /\ chk_result.issues[i].location = "Jurisdiction Reference"
          /\ chk_result.issues[i].severity = "High"
    /\ \E i \in 1..Len(chk_result.issues) :
          /\ chk_result.issues[i].location = "Jurisdiction Clause"
          /\ chk_result.issues[i].severity = "High"
    /\ ~chk_result.is_compliant

\* C12 as stated: for a document that contains "UAE Federal Court" and does
\* not mention ADGM, whatever the process type, the result holds a red-flag
\* issue (High, jurisdiction) and a jurisdiction-compliance issue (High), and
\* is_compliant is false.
C12_FederalCourtAnyProcess ==
    (/\ chk_pc = "done"
     /\ Contains(chk_in.doc_data.content, "UAE Federal Court")
     /\ ~Contains(chk_in.doc_data.content, "ADGM"))
    => FederalCourtReported

\* C12 as amended: the same, for the three process types the checker knows.
\* For any other process type the jurisdiction pass is skipped and only the
\* red-flag issue is reported.
C12_FederalCourtKnownProcess ==
    (/\ chk_pc = "done"
     /\ Contains(chk_in.doc_data.content, "UAE Federal Court")
     /\ ~Contains(chk_in.doc_data.content, "ADGM"))
    => IF chk_in.process_type \in {"Company Incorporation", "Business Licensing",
                                   "Constitutional Amendments"}
       THEN FederalCourtReported
       ELSE /\ ~chk_result.is_compliant
            /\ \A i \in 1..Len(chk_result.issues) : PassIndex(chk_result.issues[i]) # 4

\* A document of a known process type with "UAE Federal Court" after other
\* text and no "ADGM": the red flag and both jurisdiction issues are reported
C12_Witness ==
    /\ chk_pc = "done"
    /\ chk_in.process_type = "Business Licensing"
    /\ Len(chk_in.doc_data.content) >= 2
    /\ chk_in.doc_data.content[1] # "UAE Federal Court"
    /\ Contains(chk_in.doc_data.content, "UAE Federal Court")
    /\ ~Contains(chk_in.doc_data.content, "ADGM")
    /\ FederalCourtReported

\* The document has every clause the process type requires, mentions ADGM,
\* has a signature, witness and date block with a written date, has a
\* heading, and holds none of the phrases of the other red flags
CleanDocument ==
    LET content == chk_in.doc_data.content
    IN  /\ chk_in.process_type \in KnownProcessTypes =>
              \A k \in 1..Len(process_requirements(chk_in.process_type).mandatory_clauses) :
                  Occurs(process_requirements(chk_in.process_type).mandatory_clauses[k], content)
        /\ Contains(content, "ADGM")
        /\ Contains(content, "signature")
        /\ Contains(content, "witness")
        /\ Contains(content, "date")
        /\ Contains(content, "1 January 2024")
        /\ chk_in.doc_data.structure.headings >= 1
        /\ \A phrase \in {"UAE Federal Court", "UAE Commercial Code", "TBD", "shall be deemed"} :
              ~Contains(content, phrase)

\* C13: a document with every required clause, "ADGM", a signature, witness
\* and date block and at least one heading gets no issue: is_compliant is
\* true and the score is 100.
C13_CleanDocumentNoIssues ==
    (chk_pc = "done" /\ CleanDocument) =>
        /\ chk_result.issues = <<>>
        /\ chk_result.is_compliant
        /\ chk_result.compliance_score = [num |-> 600, den |-> 6]

\* C14: when the process type is not one of the known process types (unset
\* included: any value that is no key of process_requirements), the
\* document-type pass, the mandatory-clause pass and the jurisdiction pass
\* return no issue, whatever the document; every issue of the result comes
\* from the red-flag, formatting or signature pass.
C14_UnknownProcessGated ==
    (/\ chk_pc = "done"
     /\ chk_in.process_type \notin {"Company Incorporation", "Business Licensing",
                                     "Constitutional Amendments"})
    => \A i \in 1..Len(chk_result.issues) :
          /\ PassIndex(chk_result.issues[i]) \in {2, 5, 6}
          /\ chk_result.issues[i].category \notin {"document_type", "mandatory_clauses"}

\* A board resolution that names the UAE Federal Court and not ADGM, checked
\* with an unknown process type: issues of the red-flag, formatting and
\* signature passes only
C14_Witness ==
    /\ chk_pc = "done"
    /\ chk_in.process_type = "General Document Review"
    /\ chk_in.doc_data.document_type = "Board Resolution"
    /\ Contains(chk_in.doc_data.content, "UAE Federal Court")
    /\ ~Contains(chk_in.doc_data.content, "ADGM")
    /\ {PassIndex(chk_result.issues[i]) : i \in 1..Len(chk_result.issues)} = {2, 5, 6}

\* ------------------------------------------------------------------------
\* The application: one batch of uploaded documents

NextApp ==
    \/ process_documents
    \/ save_upload
    \/ app_parse_document
    \/ app_analyze_document
    \/ app_check_document
    \/ app_add_comments
    \/ app_except
    \/ app_finally
    \/ process_documents_exit

SpecApp == Init /\ [][NextApp]_vars

\* The attempt to process file j has completed
AttemptCompleted(j) ==
    \/ j < app_i
    \/ j = app_i /\ app_pc \in {"returned", "raised"}

\* C15: once the attempt to process a file has completed, on whatever path
\* (success, or an exception while saving the upload, parsing, checking or
\* adding comments), the temporary file made for it does not exist.
C15_TempFileDeleted ==
    \A j \in 1..uploaded_files : AttemptCompleted(j) => j \notin tmp_files

\* C16: process_documents never raises because of one file: a failure at
\* any step of file i leaves files i+1..n to be processed, and a results
\* dict is returned for the batch.
C16_FailuresIsolated ==
    /\ app_pc # "raised"
    /\ (app_pc = "returned" /\ uploaded_files > 0) =>
          /\ ~app_results.none
          /\ \A j \in 1..uploaded_files :
                \E e \in 1..Len(events) : events[e] = [step |-> "save", i |-> j]

\* ------------------------------------------------------------------------
\* The engine's construction, ingestion and refresh

NextKB ==
    \/ main
    \/ RAGEngine_init
    \/ _setup_index
    \/ connect_index
    \/ _is_index_empty
    \/ download_document
    \/ populate_document
    \/ populate_summary
    \/ upsert_batch
    \/ force_refresh_knowledge_base
    \/ settle
    \/ agent_run
    \/ main_except

SpecKB == Init /\ [][NextKB]_vars

\* The calls of one kind made so far
Calls(call) == {k \in 1 .. Len(kb_events) : kb_events[k].call = call}

After(d) == (d + 1) .. Len(kb_events)

\* The rebuild steps of force_refresh_knowledge_base
Rebuilding == kb_pc \in {"download", "populate", "summary", "upsert", "ready"}

\* C18: in force_refresh_knowledge_base the delete-all comes first, the
\* settle delay second, the downloads third and the upserts last; no
\* download or upsert is made before the delete-all has returned and the
\* delay has elapsed, and after a failed delete-all nothing more is done.
C18_RefreshOrder ==
    \A d \in Calls("delete_all") :
        /\ kb_op = "force_refresh_knowledge_base"
        /\ ~kb_events[d].ok => (After(d) = {} /\ kb_pc = "raised")
        /\ kb_events[d].ok => kb_pc # "raised"
        /\ Rebuilding => kb_events[d + 1] = KbEvent("sleep", settle_delay, TRUE)
        /\ \A k \in After(d) :
            /\ kb_events[k].call \in {"sleep", "urlopen", "_get_adgm_regulations_summary", "upsert"}
            /\ kb_events[k].call = "sleep" => k = d + 1
            /\ kb_events[k].call = "_get_adgm_regulations_summary" =>
                   \A l \in After(k) : kb_events[l].call = "upsert"
            /\ kb_events[k].call = "upsert" =>
                   /\ kb_pc \in {"upsert", "ready"}
                   /\ \A l \in After(k) : kb_events[l].call = "upsert"

\* A refresh that deleted, waited, fetched a missing file and upserted
C18_Witness ==
    /\ kb_op = "force_refresh_knowledge_base"
    /\ kb_pc = "ready"
    /\ \E d \in Calls("delete_all") :
        /\ kb_events[d].ok
        /\ \E k \in After(d), l \in After(d) :
            /\ k < l
            /\ kb_events[k].call = "urlopen"
            /\ kb_events[l] = KbEvent("upsert", 0, TRUE)

\* The calls of one kind made by the running operation
RunCalls(call) ==
    {k \in Calls(call) : \A d \in Calls("delete_all") : k > d}

\* The ids staged so far, in staging order
StagedIds == [k \in 1 .. Len(vectors) |-> vectors[k].id]

\* The ids of the chunks of a text of n words of document d
DocChunkIds(d, n) == [k \in 1 .. Len(_chunk_content(n)) |-> <<d, k - 1>>]

\* The staged ids that belong to document d, in staging order
IdsOf(d) == SelectSeq(StagedIds, LAMBDA id : id[1] = d)

\* The running operation has staged the regulations summary
SummaryPassed ==
    kb_pc \in {"upsert", "ready"} /\ RunCalls("_get_adgm_regulations_summary") # {}

\* The population has gone past manifest file d
Passed(d) ==
    \/ kb_pc = "populate" /\ d < kb_i
    \/ kb_pc = "summary"
    \/ SummaryPassed

\* C19: a manifest file that is missing (its download failed) or cannot be
\* parsed stages nothing and stops nothing: every manifest file that is
\* present and readable has all its chunks staged, and the chunks of the
\* regulations summary are staged in every ingestion, whatever the downloads
\* did.
C19_FailuresSkipped ==
    /\ \A d \in official_documents :
        Passed(d) =>
            IdsOf(d) = IF docs_dir[d].exists /\ docs_dir[d].readable
                       THEN DocChunkIds(d, docs_dir[d].words)
                       ELSE <<>>
    /\ SummaryPassed =>
           /\ IdsOf(adgm_regulations_2020) = DocChunkIds(adgm_regulations_2020, regulations_words)
           /\ IdsOf(adgm_regulations_2020) # <<>>
    /\ (RunCalls("urlopen") # {} /\ kb_pc \in {"upsert", "ready", "raised"}) => SummaryPassed
    /\ RunCalls("upsert") # {} => SummaryPassed

\* An ingestion in which the first file's download failed and the second
\* file, readable, was staged after it together with the summary
C19_Witness ==
    /\ kb_pc = "ready"
    /\ \E k \in RunCalls("urlopen") : kb_events[k].arg = 1 /\ ~kb_events[k].ok
    /\ ~docs_dir[1].readable
    /\ docs_dir[2].readable
    /\ StagedIds = DocChunkIds(2, docs_dir[2].words) \o DocChunkIds(adgm_regulations_2020, regulations_words)
    /\ Len(StagedIds) > 1

\* ------------------------------------------------------------------------
\* Chunking

NextChunk == _chunk_content_call

SpecChunk == Init /\ [][NextChunk]_vars

\* The number of words of a chunk
Words(chunk) == chunk.last - chunk.first + 1

\* The number of words two chunks share, the second starting later
Shared(chunk, next) == chunk.last - next.first + 1

\* ceil(n / 800)
CeilDiv800(n) == (n + 799) \div 800

\* What the claim says of the returned list, but for the length of chunks
\* that are not the last
ChunkLayout ==
    /\ Len(chunks_out) = CeilDiv800(chunk_n)
    /\ \A k \in 1 .. Len(chunks_out) :
        /\ chunks_out[k].first = 800 * (k - 1)
        /\ chunks_out[k].last <= 800 * (k - 1) + 999
        /\ chunks_out[k].last < chunk_n
        /\ Words(chunks_out[k]) >= 1
        /\ Words(chunks_out[k]) <= 1000
    /\ \A k \in 1 .. Len(chunks_out) - 2 : Shared(chunks_out[k], chunks_out[k + 1]) = 200

\* C20 as stated: chunk i is words 800 i to 800 i + 999, with fewer words
\* only in the last chunk; ceil(n / 800) chunks, none empty, none longer
\* than 1000 words, and 200 shared words between consecutive chunks that are
\* not the final one.
C20_OnlyLastChunkShort ==
    /\ ChunkLayout
    /\ \A k \in 1 .. Len(chunks_out) - 1 : Words(chunks_out[k]) = 1000

\* C20, amended: chunk i is words 800 i to min(800 i + 999, n - 1); every
\* chunk but the last two has 1000 words, the last but one has 1000 words
\* unless the last has fewer than 200, and the last chunk is then wholly
\* inside the one before it.
C20_ChunkLayout ==
    /\ ChunkLayout
    /\ \A k \in 1 .. Len(chunks_out) :
        chunks_out[k].last = IF 800 * (k - 1) + 999 < chunk_n THEN 800 * (k - 1) + 999 ELSE chunk_n - 1
    /\ \A k \in 1 .. Len(chunks_out) - 2 : Words(chunks_out[k]) = 1000
    /\ \A k \in 1 .. Len(chunks_out) - 1 :
        LET last == chunks_out[Len(chunks_out)]
        IN  k = Len(chunks_out) - 1 =>
               /\ Words(chunks_out[k]) = IF Words(last) < 200 THEN 800 + Words(last) ELSE 1000
               /\ Shared(chunks_out[k], last) = IF Words(last) < 200 THEN Words(last) ELSE 200

\* A text of 1700 words: three chunks, the second 900 words long, the third
\* the last 100 words of the second
C20_Witness ==
    /\ chunk_n = 1700
    /\ Len(chunks_out) = 3
    /\ Words(chunks_out[1]) = 1000
    /\ Words(chunks_out[2]) = 900
    /\ chunks_out[3] = [first |-> 1600, last |-> 1699]

\* ------------------------------------------------------------------------
\* Start-up

\* C21: when the generation credential or the index credential is absent,
\* the construction raises before any call to the index or to a download is
\* made, and the run step (the only caller of process_documents) is never
\* reached.
C21_MissingCredentialFatal ==
    (main_pc # "idle" /\ (~env.PINECONE_API_KEY \/ ~env.GEMINI_API_KEY)) =>
        /\ kb_events = <<>>
        /\ kb_pc \in {"idle", "raised"}
        /\ main_pc \in {"constructing", "error"}
        /\ index_records = index_before
        /\ vectors = <<>>

\* The index credential present, the generation credential absent: the
\* construction has raised and main has reported it
C21_Witness ==
    /\ env.PINECONE_API_KEY
    /\ ~env.GEMINI_API_KEY
    /\ kb_pc = "raised"
    /\ main_pc = "error"
    /\ kb_events = <<>>

\* ------------------------------------------------------------------------
\* What the generation model sees of a document

NextPair == analyze_document_pair

SpecPair == Init /\ [][NextPair]_vars

\* C22: two documents that agree on their first 2000 characters, analysed
\* with the same process type against the same index, lead to the same
\* prompt.
C22_TailInvisible ==
    (pair_pc = "done"
        /\ PySlice(pair_in.first, 0, 2000) = PySlice(pair_in.second, 0, 2000))
        => pair_prompts[1] = pair_prompts[2]

\* ------------------------------------------------------------------------
\* The batch, document by document

\* The place of a step among the steps of one document
StepRank(step) ==
    CASE step = "save" -> 1
      [] step = "parse" -> 2
      [] step = "analysis" -> 3
      [] step = "check" -> 4
      [] step = "comment" -> 5
      [] step = "delete" -> 6

\* The files listed in results['documents'], in list order
Listed == [k \in 1 .. Len(app_results.documents) |-> app_results.documents[k].index]

\* The files of the batch that st.error reported
Reported == {errors[k] : k \in 1 .. Len(errors)}

\* C23: the steps of one document (temporary file, parse, analysis, check,
\* comments, deletion) are all taken before the first step of the next
\* document, in upload order; at no time is there more than one temporary
\* file; results['documents'] holds the documents processed without error,
\* in upload order.
C23_Sequential ==
    /\ \A k \in 1 .. Len(events), l \in 1 .. Len(events) :
        k < l =>
            /\ events[k].i <= events[l].i
            /\ events[k].i = events[l].i => StepRank(events[k].step) < StepRank(events[l].step)
            /\ events[k].i < events[l].i =>
                   \E d \in k .. (l - 1) : events[d] = [step |-> "delete", i |-> events[k].i]
    /\ \A k \in 1 .. Len(events) : events[k].i \in 1 .. app_i
    /\ Cardinality(tmp_files) <= 1
    /\ tmp_files \subseteq {app_i}
    /\ \A k \in 1 .. Len(Listed) :
        /\ Listed[k] \in 1 .. app_i
        /\ k > 1 => Listed[k - 1] < Listed[k]
        /\ Listed[k] \notin Reported
    /\ app_pc = "returned" /\ uploaded_files > 0 =>
           \A i \in 1 .. uploaded_files :
               (i \notin Reported) <=> (\E k \in 1 .. Len(Listed) : Listed[k] = i)

\* A batch of two: the first document failed after its check, the second
\* went through every step, and only the second is listed
C23_Witness ==
    /\ app_pc = "returned"
    /\ uploaded_files = 2
    /\ errors = <<1>>
    /\ Listed = <<2>>
    /\ \E k \in 1 .. Len(events) : events[k] = [step |-> "check", i |-> 1]
    /\ {events[k].step : k \in {j \in 1 .. Len(events) : events[j].i = 2}}
           = {"save", "parse", "analysis", "check", "comment", "delete"}
    /\ tmp_files = {}

\* The sum of the issue counts of the listed documents
RECURSIVE SumIssues(_)
SumIssues(documents) ==
    IF documents = <<>> THEN 0
    ELSE Head(documents).issues + SumIssues(Tail(documents))

\* Some listed document went through the check and is not compliant
SomeListedNotCompliant ==
    \E k \in 1 .. Len(app_results.documents) :
        app_results.documents[k].compliance /\ ~app_results.documents[k].is_compliant

\* C29: when process_documents has returned its results, total_issues is
\* the sum of the issue counts of the listed documents, and
\* overall_compliance is false exactly when a listed document is not
\* compliant.
C29_AggregatesAgree ==
    (app_pc = "returned" /\ ~app_results.none) =>
        /\ app_results.total_issues = SumIssues(app_results.documents)
        /\ app_results.overall_compliance = ~SomeListedNotCompliant

\* ------------------------------------------------------------------------
\* Upserts

NextPopulate ==
    \/ _populate_from_official_documents
    \/ populate_document
    \/ populate_summary
    \/ upsert_batch

SpecPopulate == Init /\ [][NextPopulate]_vars

\* The positions (1-based) of the staged records of the batch at an offset
BatchRange(offset) ==
    (offset + 1) .. (IF offset + 100 < Len(vectors) THEN offset + 100 ELSE Len(vectors))

\* The number of batches made so far that the population has to make
BatchesDue ==
    IF kb_pc = "upsert" THEN kb_i \div 100
    ELSE IF kb_pc = "ready" /\ SummaryPassed THEN (Len(vectors) + 99) \div 100
    ELSE 0

\* C24: the staged records are upserted in consecutive batches of at most
\* 100; the k-th call takes the records 100 (k - 1) + 1 to 100 k in staging
\* order, so that the batches partition the staged sequence; each batch is
\* attempted once, and the batches after a failed one are attempted too.
C24_UpsertBatching ==
    LET upserts == SubSeq(kb_events, Len(kb_events) - Cardinality(RunCalls("upsert")) + 1,
                          Len(kb_events))
    IN  /\ \A k \in RunCalls("upsert") : \A l \in After(k) : kb_events[l].call = "upsert"
        /\ Len(upserts) = BatchesDue
        /\ \A k \in 1 .. Len(upserts) :
            /\ upserts[k].call = "upsert"
            /\ upserts[k].arg = 100 * (k - 1)
            /\ BatchRange(upserts[k].arg) # {}
            /\ Cardinality(BatchRange(upserts[k].arg)) <= 100
            /\ upserts[k].ok => {vectors[j].id : j \in BatchRange(upserts[k].arg)} \subseteq index_records
        /\ (kb_pc = "ready" /\ SummaryPassed) =>
               /\ UNION {BatchRange(upserts[k].arg) : k \in 1 .. Len(upserts)} = 1 .. Len(vectors)
               /\ index_records =
                      index_before \cup
                          UNION {{vectors[j].id : j \in BatchRange(upserts[k].arg)} :
                                    k \in {u \in 1 .. Len(upserts) : upserts[u].ok}}

\* A population of more than 200 records: the first upsert returned, the
\* second raised and the third was made all the same
C24_Witness ==
    /\ kb_pc = "ready"
    /\ SummaryPassed
    /\ Len(vectors) > 200
    /\ \E k \in RunCalls("upsert") :
        /\ kb_events[k] = KbEvent("upsert", 0, TRUE)
        /\ kb_events[k + 1] = KbEvent("upsert", 100, FALSE)
        /\ kb_events[k + 2] = KbEvent("upsert", 200, TRUE)
        /\ k + 2 = Len(kb_events)

\* The ids a corpus leads to: for every file with text its chunk indexes,
\* and those of the regulations summary
CorpusIds(files) ==
    UNION {{<<d, i>> : i \in 0 .. (CeilDiv800(files[d].words) - 1)} :
              d \in {f \in official_documents : files[f].exists /\ files[f].readable}}
        \cup {<<adgm_regulations_2020, i>> : i \in 0 .. (CeilDiv800(regulations_words) - 1)}

\* C25: every staged record is tagged is_official; its id is its document
\* id with the index of the chunk among the chunks of that document; no two
\* staged records share an id; and the ids staged by a complete ingestion
\* are determined by the corpus.
C25_StagedIds ==
    /\ \A k \in 1 .. Len(vectors) :
        /\ vectors[k].is_official
        /\ vectors[k].id[1] \in official_documents \cup {adgm_regulations_2020}
        /\ vectors[k].id[2] = Cardinality({j \in 1 .. (k - 1) : vectors[j].id[1] = vectors[k].id[1]})
    /\ \A k \in 1 .. Len(vectors), l \in 1 .. Len(vectors) :
        vectors[k].id = vectors[l].id => k = l
    /\ SummaryPassed => {vectors[k].id : k \in 1 .. Len(vectors)} = CorpusIds(docs_dir)

\* An ingestion that staged the chunks of two files and of the summary
C25_Witness ==
    /\ SummaryPassed
    /\ \E k \in 1 .. Len(vectors) : vectors[k].id = <<1, 1>>
    /\ \E k \in 1 .. Len(vectors) : vectors[k].id = <<2, 1>>
    /\ \E k \in 1 .. Len(vectors) : vectors[k].id = <<adgm_regulations_2020, 0>>

\* ------------------------------------------------------------------------
\* Construction of the engine

\* The calls made so far, by name
CallNames == [k \in 1 .. Len(kb_events) |-> kb_events[k].call]

\* s is a prefix of t, or t of s
Comparable(s, t) ==
    \A k \in 1 .. (IF Len(s) < Len(t) THEN Len(s) ELSE Len(t)) : s[k] = t[k]

\* The calls of a construction up to the emptiness check, without and with
\* the creation of the index
StartUpCalls ==
    {<<"list_indexes", "sleep", "Index", "describe_index_stats">>,
     <<"list_indexes", "create_index", "sleep", "Index", "describe_index_stats">>}

\* C30: with both credentials present and every external call succeeding,
\* the construction of the engine does not raise; it lists the indexes,
\* creates the index if need be, waits, connects, checks for emptiness and,
\* only for an empty index, downloads and then populates; afterwards the
\* index exists and holds records.
C30_ConstructionCompletes ==
    (kb_op = "__init__"
        /\ env.PINECONE_API_KEY /\ env.GEMINI_API_KEY
        /\ \A k \in 1 .. Len(kb_events) : kb_events[k].ok)
        => /\ kb_pc # "raised"
           /\ \E calls \in StartUpCalls : Comparable(CallNames, calls)
           /\ \A k \in Calls("sleep") : kb_events[k].arg = connect_delay
           /\ \A k \in Calls("urlopen") \cup Calls("upsert") :
               /\ index_before = {}
               /\ \E c \in Calls("describe_index_stats") : c < k
           /\ \A k \in Calls("urlopen"), l \in Calls("upsert") : k < l
           /\ kb_pc = "ready" => (index_exists /\ index_records # {})

\* C26: for a known process type the document-type pass yields exactly one
\* Medium issue when the document's type is not in the required-documents list,
\* and no issue when the type is in the list or is unknown, whether the
\* classifier found no match or the dict has no type at all.
DocumentTypeIssues ==
    SelectSeq(chk_result.issues, LAMBDA i : i.category = "document_type")

C26_DocumentTypeFit ==
    (chk_pc = "done" /\ chk_in.process_type \in KnownProcessTypes) =>
        LET doc_type == chk_in.doc_data.document_type
        IN  IF \/ doc_type \in process_requirements(chk_in.process_type).required_documents
               \/ doc_type \in {"Unknown Document Type", MissingKey}
            THEN DocumentTypeIssues = <<>>
            ELSE /\ Len(DocumentTypeIssues) = 1
                 /\ DocumentTypeIssues[1].severity = "Medium"

\* The same statement for the documents the parser classified
C26_Classified ==
    chk_in.doc_data.document_type # MissingKey => C26_DocumentTypeFit

\* The issues of the jurisdiction pass, by sub-check
ClauseIssues ==
    SelectSeq(chk_result.issues, LAMBDA i : i.location = "Jurisdiction Clause")

ReferenceIssues ==
    SelectSeq(chk_result.issues, LAMBDA i : i.location = "Jurisdiction Reference")

\* One of the process type's jurisdiction keywords is in the text
KeywordMentioned ==
    \E req \in process_requirements(chk_in.process_type).jurisdiction_requirements :
        \E i \in 1..Len(chk_in.doc_data.content) :
            req \in ExactNeedles(chk_in.doc_data.content[i])

\* The k-th forbidden reference is in the text
ReferenceOccurs(k) ==
    \E i \in 1..Len(chk_in.doc_data.content) : chk_in.doc_data.content[i] = federal_patterns[k]

\* The k-th pattern matches: "UAE Federal Court" anywhere, the other two
\* references where no "ADGM" follows before the end of the line
ReferenceMatches(k) ==
    LET content == chk_in.doc_data.content
    IN  \E i \in 1..Len(content) :
            /\ content[i] = federal_patterns[k]
            /\ \/ k = 1
               \/ \A j \in (i + 1)..Len(content) :
                      content[j] = "ADGM" => \E m \in i..j : content[m] = NL

JurisdictionPass(found) ==
    (chk_pc = "done" /\ chk_in.process_type \in KnownProcessTypes) =>
        /\ Len(ClauseIssues) = (IF KeywordMentioned THEN 0 ELSE 1)
        /\ Len(ReferenceIssues) = Cardinality(found)
        /\ \A i \in 1..Len(ClauseIssues) : ClauseIssues[i].severity = "High"
        /\ \A i \in 1..Len(ReferenceIssues) : ReferenceIssues[i].severity = "High"

\* C27 as stated: for a known process type, one High issue when no
\* jurisdiction keyword is in the text and, whatever the first sub-check
\* found, one High issue for every forbidden federal reference in the text.
C27_ReferencesNeverSuppressed ==
    JurisdictionPass({k \in 1..Len(federal_patterns) : ReferenceOccurs(k)})

\* C27, amended: for a known process type, one High issue when no
\* jurisdiction keyword is in the text and one High issue for every forbidden
\* pattern that matches; "UAE Commercial Code" and "Dubai International
\* Financial Centre" do not match where "ADGM" follows on the same line.
C27_JurisdictionPass ==
    JurisdictionPass({k \in 1..Len(federal_patterns) : ReferenceMatches(k)})

\* A keyword is mentioned, one reference is reported and another one is
\* exempt because "ADGM" follows it on its line
C27_Witness ==
    /\ chk_pc = "done"
    /\ chk_in.process_type \in KnownProcessTypes
    /\ KeywordMentioned
    /\ Len(ReferenceIssues) = 1
    /\ \E k \in 1..Len(federal_patterns) : ReferenceOccurs(k) /\ ~ReferenceMatches(k)

\* No keyword and a forbidden reference: both kinds of issue on one document
C27_BothKinds ==
    /\ chk_pc = "done"
    /\ Len(ClauseIssues) = 1
    /\ Len(ReferenceIssues) >= 1

\* The issues of the signature pass
SignatureIssues ==
    SelectSeq(chk_result.issues, LAMBDA i : i.location = "Signature Section")

\* The descriptions of the elements whose token is nowhere in the lowered text
MissingDescriptions ==
    {signature_elements[k].description : k \in
        {e \in 1..Len(signature_elements) :
            \A i \in 1..Len(chk_in.doc_data.content) :
                signature_elements[e].element \notin Needles(chk_in.doc_data.content[i])}}

\* C28: the signature pass returns at most one issue per document: none when
\* "signature", "witness" and "date" are all in the text, otherwise exactly
\* one Medium issue that lists every missing element and no present one.
C28_SignatureCompleteness ==
    chk_pc = "done" =>
        /\ Len(SignatureIssues) <= 1
        /\ MissingDescriptions = {} <=> SignatureIssues = <<>>
        /\ \A i \in 1..Len(SignatureIssues) :
              /\ SignatureIssues[i].severity = "Medium"
              /\ {SignatureIssues[i].detail[d] : d \in 1..Len(SignatureIssues[i].detail)}
                    = MissingDescriptions
              /\ Len(SignatureIssues[i].detail) = Cardinality(MissingDescriptions)

\* Two elements are missing and one is present: one issue lists the two
C28_Witness ==
    /\ chk_pc = "done"
    /\ \E i \in 1..Len(chk_in.doc_data.content) :
          "signature" \in Needles(chk_in.doc_data.content[i])
    /\ Len(SignatureIssues) = 1
    /\ SignatureIssues[1].detail = <<"Witness section", "Date field">>

====
